---- MODULE Spec2Model ----
(***************************************************************************)
(* Inventory-App: the stock mutation service of server/index.js over its   *)
(* relational store (items, inventory_onhand, inventory_events).           *)
(*                                                                         *)
(* Every request handler is a sequence of awaited statements; one action   *)
(* models one awaited statement together with the synchronous code that    *)
(* follows it up to the next await.  A transaction's writes are kept in    *)
(* the request's write set and reach the committed tables at COMMIT; row   *)
(* locks are held from the locking statement to the end of the             *)
(* transaction (READ COMMITTED).                                           *)
(*                                                                         *)
(* server/index.js holds two variants of the server; the model follows the *)
(* first one (lines 1-285), the one that also serves the web UI.           *)
(***************************************************************************)
EXTENDS Integers, Sequences, FiniteSets, Bags, TLC

\* ------------------------------------------------------------------ bounds
NumReqs == 2
MaxAdds == 2
MaxBatchQty == 2

\* ------------------------------------------------------------------ values
Codes == {"X1", "X2"}
Empty == ""
Reqs == 1..NumReqs
NoRow == -9
NoWrite == -8
NoLock == 0
Null == "null"
Now == "now"
NoMeta == [orderId |-> Null, source |-> Null, dateSubtracted |-> Null]
Metas == {NoMeta, [orderId |-> "A17", source |-> "shop", dateSubtracted |-> "d1"]}
Ops == {"items", "add", "initiate", "confirm"}

\* A text value is a sequence of characters; NullText is the SQL NULL (and
\* the JavaScript null or undefined) of a text column, which is not a text.
NullText == <<Null>>
EmptyText == <<>>

\* The null of the numeric column "Qty".
NullQty == -7

\* The columns of a row of table items that the model carries: id,
\* "InventoryDate", "ScannedCode", "Brand" (one of the nullable text columns,
\* all written the same way), "Model" and "Qty".
NoItem == [id |-> <<Empty, 0>>, InventoryDate |-> Null, ScannedCode |-> Empty,
           Brand |-> NullText, Model |-> NullText, Qty |-> NullQty]

\* A row that was in the table before the server started.
StoredRow(c) ==
    [id |-> <<c, 1>>, InventoryDate |-> "d0", ScannedCode |-> c,
     Brand |-> NullText, Model |-> <<"a">>, Qty |-> 2]

\* req.body of POST /items: the fields next to ScannedCode.
NoBody == [InventoryDate |-> Null, Brand |-> NullText, Model |-> NullText, Qty |-> NullQty]
SameBody == [InventoryDate |-> "d0", Brand |-> NullText, Model |-> <<"a">>, Qty |-> 2]
Bodies == {SameBody, NoBody}
CatBodies ==
    {SameBody, NoBody,
     [InventoryDate |-> Null, Brand |-> <<"A">>, Model |-> <<"b">>, Qty |-> 1],
     [InventoryDate |-> "d1", Brand |-> EmptyText, Model |-> <<"a">>, Qty |-> NullQty],
     [InventoryDate |-> Null, Brand |-> NullText, Model |-> EmptyText, Qty |-> 2]}

VARIABLES
    items,      \* the scan codes of the committed rows of table items (its unique index)
    catalog,    \* committed rows of table items, with their columns
    onhand,     \* committed inventory_onhand.on_hand by item, NoRow when no row
    events,     \* committed rows of table inventory_events (a bag of rows)
    rowLock,    \* the transaction holding the row lock of an inventory_onhand row
    itemLock,   \* the transaction holding the row lock of an items row
    pc,         \* each request's position in its handler
    op,         \* each request's route
    code,       \* each request's barcode / ScannedCode
    meta,       \* a confirm request's "Order Id", "Where bought from", "Date Subtracted"
    body,       \* a POST /items request's item fields
    ohRead,     \* oh.rows[0].on_hand as read by the request, NoRow when no rows
    wItem,      \* the request's uncommitted insert into items
    wRow,       \* the row version the request's upsert wrote, NoItem when none
    wOnhand,    \* the request's uncommitted inventory_onhand value, NoWrite when none
    wEvents,    \* the request's uncommitted inventory_events rows
    resp,       \* the response the request has sent, NoResponse before it
    reply,      \* the response of the last GET request, NoReply before it
    ui,         \* the state of the web UI's App component (its useState values)
    await,      \* the responses the UI's running handlers are waiting for
    sent,       \* the requests issued by the UI's last handler
    nAdded,     \* history: per item, the AddOne calls answered 201 so far
    nRemoved,   \* history: per item, the ConfirmRemove calls answered REMOVED so far
    scenario    \* history: how far the last calls follow the end-to-end scenario

db == <<items, onhand, events, catalog>>
locks == <<rowLock, itemLock>>
txn == <<ohRead, wItem, wRow, wOnhand, wEvents>>
hist == <<nAdded, nRemoved, scenario>>
client == <<reply, ui, await, sent>>
server == <<items, catalog, onhand, events, rowLock, itemLock, pc, op, code, meta,
            body, ohRead, wItem, wRow, wOnhand, wEvents, resp>>
vars == <<items, catalog, onhand, events, rowLock, itemLock, pc, op, code, meta,
          body, ohRead, wItem, wRow, wOnhand, wEvents, resp, nAdded, nRemoved,
          scenario, reply, ui, await, sent>>

Response(h, b, q) == [http |-> h, body |-> b, onHand |-> q]
NoResponse == Response(0, "none", NoRow)

\* ------------------------------------------------------------------ helpers
Min(a, b) == IF a < b THEN a ELSE b

Idle(r) == pc[r] = "idle"

\* The number of rows of one item and action in a bag of inventory_events rows.
RECURSIVE SumCopies(_, _)
SumCopies(B, rows) ==
    IF rows = {} THEN 0
    ELSE LET e == CHOOSE x \in rows : TRUE
         IN CopiesIn(e, B) + SumCopies(B, rows \ {e})
CountEvents(B, c, a) ==
    SumCopies(B, {e \in BagToSet(B) : e.item = c /\ e.action = a})

\* The value of a row as transaction r sees it: its own write, else the
\* committed row.
Visible(r, c) == IF wOnhand[r] # NoWrite THEN wOnhand[r] ELSE onhand[c]

\* Mutant: the statement does not wait for the row lock (no FOR UPDATE).
CanLock_NoWait(r, c) == TRUE

\* A statement that needs the row lock of c waits while another transaction
\* holds it.
CanLock(r, c) == rowLock[c] \in {NoLock, r}

\* res.json(...) / res.status(...).json(...): the handler's one response.
Send(r, rsp) ==
    /\ resp' = [resp EXCEPT ![r] = rsp]
    /\ pc' = [pc EXCEPT ![r] = "done"]
    /\ UNCHANGED <<op, code, meta, body>>

\* The end of a transaction, committed or rolled back: its write set is
\* dropped and its row locks are released.
EndTxn(r) ==
    /\ rowLock' = [c \in Codes |-> IF rowLock[c] = r THEN NoLock ELSE rowLock[c]]
    /\ itemLock' = [c \in Codes |-> IF itemLock[c] = r THEN NoLock ELSE itemLock[c]]
    /\ ohRead' = [ohRead EXCEPT ![r] = NoRow]
    /\ wItem' = [wItem EXCEPT ![r] = FALSE]
    /\ wRow' = [wRow EXCEPT ![r] = NoItem]
    /\ wOnhand' = [wOnhand EXCEPT ![r] = NoWrite]
    /\ wEvents' = [wEvents EXCEPT ![r] = EmptyBag]

\* COMMIT: the write set reaches the committed tables.
CommitWrites(r) ==
    /\ items' = IF wItem[r] THEN items \cup {code[r]} ELSE items
    /\ catalog' = IF wRow[r] = NoItem THEN catalog
                  ELSE {x \in catalog : x.id # wRow[r].id} \cup {wRow[r]}
    /\ onhand' = IF wOnhand[r] # NoWrite
                 THEN [onhand EXCEPT ![code[r]] = wOnhand[r]] ELSE onhand
    /\ events' = events (+) wEvents[r]

\* Mutant: the UPDATE ran outside the transaction (pool.query), so ROLLBACK
\* does not undo it.
Rollback_KeepsOnHand(r) ==
    /\ onhand' = IF wOnhand[r] # NoWrite
                 THEN [onhand EXCEPT ![code[r]] = wOnhand[r]] ELSE onhand
    /\ UNCHANGED <<items, events, catalog>>
    /\ EndTxn(r)

\* ROLLBACK: nothing of the write set reaches the committed tables.
Rollback(r) == UNCHANGED db /\ EndTxn(r)

Goto(r, l) == pc' = [pc EXCEPT ![r] = l]

\* The on-hand quantity of an item: COALESCE(oh.on_hand, 0).
OnHand(c) == IF onhand[c] = NoRow THEN 0 ELSE onhand[c]

NoScenario == [code |-> Empty, stage |-> 0]

Reply(rt, qy, h, e, rs) == [route |-> rt, query |-> qy, http |-> h, error |-> e, rows |-> rs]
NoReply == Reply("none", Empty, 0, "none", <<>>)

\* The web UI (App.tsx).  A scanned code is a text of one symbol.
ADD_CODE == <<"##ADD##">>
REMOVE_CODE == <<"##REMOVE##">>
SEARCH_CODE == <<"##SEARCH##">>

\* The query keys of FILTERABLE that the model carries.
FILTERABLE == {"brand", "model"}

\* useState(...): the state of App when it is mounted.  pendingItem and
\* confirmRemove are null when their code (item) is Empty; searchSummary
\* is '' when it is the empty sequence, otherwise the term and the count.
\* filters is the state of the last render, the one the handlers' closures
\* hold; updates are the functions passed to setFilters since the mount, of
\* which React has run the first done.
\* ConfirmRemoveModal: its useState values when it is mounted, '' for the
\* Order Id and for Where bought from and the current minute for the date.
\* A date is an instant, whatever its notation ("d1" as datetime-local, as
\* ISO text and as timestamptz).
NewForm == [orderId |-> "", source |-> "", dateSubtracted |-> Now]

NoPending == [code |-> Empty]
NoConfirm == [item |-> Empty, onHand |-> 0, form |-> NoMeta]
NoSession ==
    [mode |-> "idle", toast |-> "", scanInput |-> EmptyText,
     pendingItem |-> NoPending, confirmRemove |-> NoConfirm,
     searchTerm |-> EmptyText, results |-> <<>>, searchSummary |-> <<>>,
     filters |-> [k \in FILTERABLE |-> {}], updates |-> <<>>, done |-> 0]

\* No handler of the UI is waiting for a response.
NoAwait == {}

\* ------------------------------------------------------------------ init
Init ==
    /\ items \in SUBSET Codes
    /\ catalog = {StoredRow(c) : c \in items}
    /\ onhand \in [Codes -> {NoRow, 0}]
    /\ \A c \in Codes : c \notin items => onhand[c] = NoRow
    /\ events = EmptyBag
    /\ rowLock = [c \in Codes |-> NoLock]
    /\ itemLock = [c \in Codes |-> NoLock]
    /\ pc = [r \in Reqs |-> "idle"]
    /\ op = [r \in Reqs |-> "none"]
    /\ code = [r \in Reqs |-> Empty]
    /\ meta = [r \in Reqs |-> NoMeta]
    /\ body = [r \in Reqs |-> NoBody]
    /\ ohRead = [r \in Reqs |-> NoRow]
    /\ wItem = [r \in Reqs |-> FALSE]
    /\ wRow = [r \in Reqs |-> NoItem]
    /\ wOnhand = [r \in Reqs |-> NoWrite]
    /\ wEvents = [r \in Reqs |-> EmptyBag]
    /\ resp = [r \in Reqs |-> NoResponse]
    /\ nAdded = [c \in Codes |-> 0]
    /\ nRemoved = [c \in Codes |-> 0]
    /\ scenario = NoScenario
    /\ reply = NoReply
    /\ ui = NoSession
    /\ await = NoAwait
    /\ sent = <<>>

\* ------------------------------------------------------------------ helpers of the handlers

\* Mutant: ON CONFLICT (item_id) DO UPDATE SET on_hand = 0.
ensureOnHandRow_Reset(r, c) ==
    /\ CanLock(r, c)
    /\ wOnhand' = [wOnhand EXCEPT ![r] = 0]
    /\ rowLock' = [rowLock EXCEPT ![c] = r]

\* ensureOnHandRow: INSERT INTO inventory_onhand (item_id, on_hand) VALUES ($1, 0)
\* ON CONFLICT (item_id) DO NOTHING.  A row the transaction can see is left
\* alone; otherwise the insert waits for a concurrent uncommitted insert of
\* the same key and then writes the row at 0, holding its lock.
ensureOnHandRow(r, c) ==
    IF Visible(r, c) # NoRow
    THEN UNCHANGED <<wOnhand, rowLock>>
    ELSE /\ CanLock(r, c)
         /\ wOnhand' = [wOnhand EXCEPT ![r] = 0]
         /\ rowLock' = [rowLock EXCEPT ![c] = r]

\* Mutant: the handler does not test it.rows.length.
ItemFound_Always(r) == TRUE

\* it.rows.length: SELECT ... FROM items WHERE "ScannedCode" = $1 found a row.
ItemFound(r) == code[r] \in items

\* Mutant: the remove path copies the add path's "on_hand + 1".
UpdateOnHand_AlwaysAdd(r, c, d) ==
    /\ CanLock(r, c)
    /\ wOnhand' = [wOnhand EXCEPT ![r] = Visible(r, c) + 1]
    /\ rowLock' = [rowLock EXCEPT ![c] = r]

\* Mutant: the new quantity is computed by the handler from the committed
\* value (SELECT, then UPDATE ... SET on_hand = $2) without the row lock.
UpdateOnHand_FromRead(r, c, d) ==
    /\ wOnhand' = [wOnhand EXCEPT ![r] = OnHand(c) + d]
    /\ rowLock' = rowLock

\* UPDATE inventory_onhand SET on_hand = on_hand + d WHERE item_id = $1: waits
\* for the row lock, then updates the latest version of the row.
UpdateOnHand(r, c, d) ==
    /\ CanLock(r, c)
    /\ wOnhand' = [wOnhand EXCEPT ![r] = Visible(r, c) + d]
    /\ rowLock' = [rowLock EXCEPT ![c] = r]

\* INSERT INTO inventory_events (item_id, action, qty) VALUES ($1,'add',1)
AddEventRow(c) ==
    [item |-> c, action |-> "add", qty |-> 1,
     orderId |-> Null, source |-> Null, dateSubtracted |-> Null]

\* INSERT INTO inventory_events (..., "Order Id", "Where bought from",
\* "Date Subtracted") VALUES ($1,'remove',1,$2,$3,COALESCE($4::timestamptz, now()))
RemoveEventRow(c, m) ==
    [item |-> c, action |-> "remove", qty |-> 1,
     orderId |-> m.orderId, source |-> m.source,
     dateSubtracted |-> IF m.dateSubtracted = Null THEN Now ELSE m.dateSubtracted]

\* Mutant: on_hand < 0 in place of on_hand <= 0.
OutOfStock_OffByOne(q) == q = NoRow \/ q < 0

\* Mutant: only the missing row is tested, the quantity is not re-checked.
OutOfStock_MissingOnly(q) == q = NoRow

\* if (!oh.rows.length || oh.rows[0].on_hand <= 0)
OutOfStock(q) == q = NoRow \/ q <= 0

\* Mutant: the quantity read before the decrement is reported.
NewOnHand_Stale(q) == q

\* const newOnHand = oh.rows[0].on_hand - 1
NewOnHand(q) == q - 1

\* Mutant: onHand >= 0 in place of onHand > 0.
InitiateResponse_Geq(q) ==
    IF q >= 0 THEN Response(200, "CONFIRM_REQUIRED", q)
    ELSE Response(200, "REGISTERED_ZERO_STOCK", 0)

\* if (onHand > 0) CONFIRM_REQUIRED with onHand, else REGISTERED_ZERO_STOCK with 0
InitiateResponse(q) ==
    IF q > 0 THEN Response(200, "CONFIRM_REQUIRED", q)
    ELSE Response(200, "REGISTERED_ZERO_STOCK", 0)

\* ------------------------------------------------------------------ a request arrives

\* The add requests received so far that may have committed: the bound on
\* arrivals that keeps quantities finite.
AddsSoFar ==
    SumCopies(events, {e \in BagToSet(events) : e.action = "add"})
    + Cardinality({q \in Reqs : ~Idle(q) /\ op[q] = "add"})

\* !Model: a missing (undefined or null) or empty text.
Falsy(t) == t \in {NullText, EmptyText}

\* The request takes the lowest free slot.  A missing barcode (or, for
\* POST /items, a missing ScannedCode or Model) is answered 400 before a
\* connection is taken; otherwise the handler holds a pooled connection and
\* is about to BEGIN.
Receive(r, o, c, m, b) ==
    /\ Idle(r)
    /\ \A q \in Reqs : q < r => ~Idle(q)
    /\ o = "add" => AddsSoFar < MaxAdds
    /\ op' = [op EXCEPT ![r] = o]
    /\ code' = [code EXCEPT ![r] = c]
    /\ meta' = [meta EXCEPT ![r] = m]
    /\ IF o = "items" /\ (c = Empty \/ Falsy(b.Model))
       THEN /\ resp' = [resp EXCEPT ![r] = Response(400, "MISSING_FIELDS", NoRow)]
            /\ body' = body
            /\ Goto(r, "sent")
       ELSE IF o # "items" /\ c = Empty
       THEN /\ resp' = [resp EXCEPT ![r] = Response(400, "MISSING_BARCODE", NoRow)]
            /\ body' = body
            /\ Goto(r, "sent")
       ELSE /\ resp' = resp
            /\ body' = [body EXCEPT ![r] = b]
            /\ Goto(r, "begin")
    /\ UNCHANGED <<db, locks, txn>>

\* finally { client.release() }: the handler is over and its slot is free.
Release(r) ==
    /\ pc[r] \in {"done", "sent"}
    /\ pc' = [pc EXCEPT ![r] = "idle"]
    /\ op' = [op EXCEPT ![r] = "none"]
    /\ code' = [code EXCEPT ![r] = Empty]
    /\ meta' = [meta EXCEPT ![r] = NoMeta]
    /\ body' = [body EXCEPT ![r] = NoBody]
    /\ resp' = [resp EXCEPT ![r] = NoResponse]
    /\ UNCHANGED <<db, locks, txn>>

\* await client.query('BEGIN')
Begin(r) ==
    /\ pc[r] = "begin"
    /\ Goto(r, IF op[r] = "items" THEN "insert" ELSE "select")
    /\ UNCHANGED <<db, locks, txn, op, code, meta, body, resp>>

\* ------------------------------------------------------------------ POST /items

\* InventoryDate ?? new Date().toISOString(): the first parameter of the INSERT.
DateParam(b) == IF b.InventoryDate = Null THEN Now ELSE b.InventoryDate

\* COALESCE(a, d)
Coalesce(a, d) == IF a # Null THEN a ELSE d

\* The identifier the table gives a new row: one no row has, committed or
\* not.  Identifiers are only compared, so the k-th row inserted with scan
\* code c is named <<c, k>>.
NewId(r, c) ==
    <<c, 1 + Cardinality({x \in catalog : x.ScannedCode = c})
           + Cardinality({q \in Reqs \ {r} : wRow[q].ScannedCode = c
                                              /\ wRow[q].id \notin {x.id : x \in catalog}})>>

\* Mutant: the INSERT has no ON CONFLICT target (no unique "ScannedCode").
Conflicting_None(c) == {}

\* The committed rows the INSERT conflicts with on the unique "ScannedCode".
Conflicting(c) == {x \in catalog : x.ScannedCode = c}

\* The row version the statement writes: the proposed row (EXCLUDED) when
\* nothing conflicts, else the existing row with the SET list applied.
UpsertRow(r, c, b) ==
    IF Conflicting(c) = {}
    THEN [id |-> NewId(r, c), InventoryDate |-> DateParam(b), ScannedCode |-> c,
          Brand |-> b.Brand, Model |-> b.Model, Qty |-> b.Qty]
    ELSE LET x == CHOOSE x \in Conflicting(c) : TRUE
         IN [x EXCEPT !.InventoryDate = Coalesce(DateParam(b), x.InventoryDate),
                      !.Brand = b.Brand,
                      !.Model = b.Model,
                      !.Qty = b.Qty]

\* INSERT INTO items ... ON CONFLICT ("ScannedCode") DO UPDATE ... RETURNING *:
\* inserts the item or updates the existing one, holding its row lock; it
\* waits while another transaction's uncommitted row has the same scan code.
ItemsInsert(r) ==
    /\ pc[r] = "insert" /\ op[r] = "items"
    /\ itemLock[code[r]] \in {NoLock, r}
    /\ itemLock' = [itemLock EXCEPT ![code[r]] = r]
    /\ wItem' = [wItem EXCEPT ![r] = code[r] \notin items]
    /\ wRow' = [wRow EXCEPT ![r] = UpsertRow(r, code[r], body[r])]
    /\ Goto(r, "ensure")
    /\ UNCHANGED <<db, rowLock, ohRead, wOnhand, wEvents, op, code, meta, body, resp>>

\* Mutant: the write also sets on_hand to the item's "Qty" (ON CONFLICT
\* (item_id) DO UPDATE SET on_hand = $2 when Qty is given).
ItemsEnsure_SyncQty(r) ==
    /\ pc[r] = "ensure" /\ op[r] = "items"
    /\ CanLock(r, code[r])
    /\ rowLock' = [rowLock EXCEPT ![code[r]] = r]
    /\ wOnhand' = [wOnhand EXCEPT ![r] = IF body[r].Qty # NullQty THEN body[r].Qty
                                         ELSE OnHand(code[r])]
    /\ Goto(r, "commit")
    /\ UNCHANGED <<db, itemLock, ohRead, wItem, wRow, wEvents, op, code, meta, body, resp>>

\* await ensureOnHandRow(client, item.id); the "Qty" of the body is not used.
ItemsEnsure(r) ==
    /\ pc[r] = "ensure" /\ op[r] = "items"
    /\ ensureOnHandRow(r, code[r])
    /\ Goto(r, "commit")
    /\ UNCHANGED <<db, itemLock, ohRead, wItem, wRow, wEvents, op, code, meta, body, resp>>

ItemsCommit(r) ==
    /\ pc[r] = "commit" /\ op[r] = "items"
    /\ CommitWrites(r)
    /\ EndTxn(r)
    /\ Send(r, Response(201, "ITEM", NoRow))

\* ------------------------------------------------------------------ POST /inventory/add

AddSelect(r) ==
    /\ pc[r] = "select" /\ op[r] = "add"
    /\ Goto(r, IF ItemFound(r) THEN "ensure" ELSE "notfound")
    /\ UNCHANGED <<db, locks, txn, op, code, meta, body, resp>>

\* await client.query('ROLLBACK'); return res.status(404)
AddNotFound(r) ==
    /\ pc[r] = "notfound" /\ op[r] = "add"
    /\ Rollback(r)
    /\ Send(r, Response(404, "ITEM_NOT_FOUND", NoRow))

AddEnsure(r) ==
    /\ pc[r] = "ensure" /\ op[r] = "add"
    /\ ensureOnHandRow(r, code[r])
    /\ Goto(r, "update")
    /\ UNCHANGED <<db, itemLock, ohRead, wItem, wRow, wEvents, op, code, meta, body, resp>>

AddUpdate(r) ==
    /\ pc[r] = "update" /\ op[r] = "add"
    /\ UpdateOnHand(r, code[r], 1)
    /\ Goto(r, "event")
    /\ UNCHANGED <<db, itemLock, ohRead, wItem, wRow, wEvents, op, code, meta, body, resp>>

AddEvent(r) ==
    /\ pc[r] = "event" /\ op[r] = "add"
    /\ wEvents' = [wEvents EXCEPT ![r] = @ (+) SetToBag({AddEventRow(code[r])})]
    /\ Goto(r, "commit")
    /\ UNCHANGED <<db, locks, ohRead, wItem, wRow, wOnhand, op, code, meta, body, resp>>

AddCommit(r) ==
    /\ pc[r] = "commit" /\ op[r] = "add"
    /\ CommitWrites(r)
    /\ EndTxn(r)
    /\ Send(r, Response(201, "ADDED", NoRow))

\* ------------------------------------------------------------------ POST /inventory/remove/initiate

InitiateSelect(r) ==
    /\ pc[r] = "select" /\ op[r] = "initiate"
    /\ Goto(r, IF ItemFound(r) THEN "ensure" ELSE "notfound")
    /\ UNCHANGED <<db, locks, txn, op, code, meta, body, resp>>

InitiateNotFound(r) ==
    /\ pc[r] = "notfound" /\ op[r] = "initiate"
    /\ Rollback(r)
    /\ Send(r, Response(404, "ITEM_NOT_FOUND", NoRow))

InitiateEnsure(r) ==
    /\ pc[r] = "ensure" /\ op[r] = "initiate"
    /\ ensureOnHandRow(r, code[r])
    /\ Goto(r, "read")
    /\ UNCHANGED <<db, itemLock, ohRead, wItem, wRow, wEvents, op, code, meta, body, resp>>

\* SELECT on_hand FROM inventory_onhand WHERE item_id = $1 (no lock)
InitiateRead(r) ==
    /\ pc[r] = "read" /\ op[r] = "initiate"
    /\ ohRead' = [ohRead EXCEPT ![r] = Visible(r, code[r])]
    /\ Goto(r, "commit")
    /\ UNCHANGED <<db, locks, wItem, wRow, wOnhand, wEvents, op, code, meta, body, resp>>

InitiateCommit(r) ==
    /\ pc[r] = "commit" /\ op[r] = "initiate"
    /\ CommitWrites(r)
    /\ EndTxn(r)
    /\ Send(r, InitiateResponse(ohRead[r]))

\* ------------------------------------------------------------------ POST /inventory/remove/confirm

ConfirmSelect(r) ==
    /\ pc[r] = "select" /\ op[r] = "confirm"
    /\ Goto(r, IF ItemFound(r) THEN "lock" ELSE "notfound")
    /\ UNCHANGED <<db, locks, txn, op, code, meta, body, resp>>

ConfirmNotFound(r) ==
    /\ pc[r] = "notfound" /\ op[r] = "confirm"
    /\ Rollback(r)
    /\ Send(r, Response(404, "ITEM_NOT_FOUND", NoRow))

\* SELECT on_hand FROM inventory_onhand WHERE item_id = $1 FOR UPDATE: no
\* committed row gives no rows at once; otherwise the statement waits for the
\* row lock, takes it and reads the latest committed value.
ConfirmLock(r) ==
    /\ pc[r] = "lock" /\ op[r] = "confirm"
    /\ IF onhand[code[r]] = NoRow
       THEN /\ ohRead' = [ohRead EXCEPT ![r] = NoRow]
            /\ rowLock' = rowLock
            /\ Goto(r, "oos")
       ELSE /\ CanLock(r, code[r])
            /\ rowLock' = [rowLock EXCEPT ![code[r]] = r]
            /\ ohRead' = [ohRead EXCEPT ![r] = onhand[code[r]]]
            /\ Goto(r, IF OutOfStock(onhand[code[r]]) THEN "oos" ELSE "update")
    /\ UNCHANGED <<db, itemLock, wItem, wRow, wOnhand, wEvents, op, code, meta, body, resp>>

\* await client.query('ROLLBACK'); return res.status(409)
ConfirmOutOfStock(r) ==
    /\ pc[r] = "oos" /\ op[r] = "confirm"
    /\ Rollback(r)
    /\ Send(r, Response(409, "OUT_OF_STOCK", 0))

ConfirmUpdate(r) ==
    /\ pc[r] = "update" /\ op[r] = "confirm"
    /\ UpdateOnHand(r, code[r], -1)
    /\ Goto(r, "event")
    /\ UNCHANGED <<db, itemLock, ohRead, wItem, wRow, wEvents, op, code, meta, body, resp>>

ConfirmEvent(r) ==
    /\ pc[r] = "event" /\ op[r] = "confirm"
    /\ wEvents' = [wEvents EXCEPT ![r] = @ (+) SetToBag({RemoveEventRow(code[r], meta[r])})]
    /\ Goto(r, "commit")
    /\ UNCHANGED <<db, locks, ohRead, wItem, wRow, wOnhand, op, code, meta, body, resp>>

ConfirmCommit(r) ==
    /\ pc[r] = "commit" /\ op[r] = "confirm"
    /\ CommitWrites(r)
    /\ Send(r, Response(200, "REMOVED", NewOnHand(ohRead[r])))
    /\ EndTxn(r)

\* ------------------------------------------------------------------ text values

\* The characters of the model's texts, in ascending order of the collation.
Chars == <<" ", ",", "A", "B", "a", "b">>
CharRank(ch) == CHOOSE i \in DOMAIN Chars : Chars[i] = ch

\* Text comparison of ORDER BY: s sorts strictly before t.
TextBefore(s, t) ==
    \/ \E k \in 1..Min(Len(s), Len(t)) :
          /\ \A j \in 1..(k - 1) : s[j] = t[j]
          /\ CharRank(s[k]) < CharRank(t[k])
    \/ Len(s) < Len(t) /\ \A j \in 1..Len(s) : s[j] = t[j]

\* LOWER(col), lower(col) and v.toLowerCase(); the lower case of NULL is NULL.
LowerChar(ch) == IF ch = "A" THEN "a" ELSE IF ch = "B" THEN "b" ELSE ch
Lower(t) == [i \in DOMAIN t |-> LowerChar(t[i])]

RECURSIVE TrimLeft(_)
TrimLeft(t) == IF t # <<>> /\ Head(t) = " " THEN TrimLeft(Tail(t)) ELSE t
RECURSIVE TrimRight(_)
TrimRight(t) ==
    IF t # <<>> /\ t[Len(t)] = " " THEN TrimRight(SubSeq(t, 1, Len(t) - 1)) ELSE t

\* x.trim()
Trim(t) == TrimRight(TrimLeft(t))

\* btrim(col)
btrim(t) == TrimRight(TrimLeft(t))

\* s.split(','): the pieces between the commas.
RECURSIVE Split(_)
Split(t) ==
    IF \A i \in DOMAIN t : t[i] # "," THEN <<t>>
    ELSE LET k == CHOOSE i \in DOMAIN t : t[i] = "," /\ \A j \in 1..(i - 1) : t[j] # ","
         IN <<SubSeq(t, 1, k - 1)>> \o Split(SubSeq(t, k + 1, Len(t)))

NonEmpty(t) == t # EmptyText

\* parseList: the trimmed non-empty pieces of a comma-joined query value;
\* a missing or empty value gives no pieces.
parseList(v) ==
    IF v \in {NullText, EmptyText} THEN <<>>
    ELSE SelectSeq([i \in DOMAIN Split(v) |-> Trim(Split(v)[i])], NonEmpty)

\* col ILIKE '%q%': q occurs in col, whatever the case; NULL matches nothing.
\* (The escaped characters % and _ are not among the model's characters.)
ILike(col, q) ==
    /\ col # NullText
    /\ \E i \in 0..(Len(col) - Len(q)) :
         SubSeq(Lower(col), i + 1, i + Len(q)) = Lower(q)

\* ------------------------------------------------------------------ GET /items/search

\* FIELD_MAP, for the filterable columns the model carries.
FIELD_MAP == [brand |-> "Brand", model |-> "Model"]

\* The properties every JavaScript object inherits: FIELD_MAP[k] finds them.
Inherited == {"constructor", "__proto__"}

\* The text columns the free text is matched against, among those the model
\* carries, besides the scan code (no date holds one of the model's
\* characters).
TextColumns == {"Brand", "Model"}

limit == 200

\* The scan codes of a catalog to browse, and the order of all scan codes.
BrowseCode(i) == "C" \o ToString(1000 + i)
CodeOrder == [i \in 1..(limit + 1) |-> BrowseCode(i)] \o <<"X1", "X2">>
CodeRank ==
    [c \in {CodeOrder[i] : i \in DOMAIN CodeOrder} |->
        CHOOSE i \in DOMAIN CodeOrder : CodeOrder[i] = c]

\* qRaw: (req.query.q ?? '').toString().trim()
qRaw(query) == IF query.q = NullText THEN EmptyText ELSE Trim(query.q)

\* filters: the parsed list of each filterable key; other keys are not read.
filters(query) == [k \in DOMAIN FIELD_MAP |-> parseList(query[k])]

\* LOWER(col) = ANY(values.map(v => v.toLowerCase()))
EqualsAny(t, values) == \E i \in DOMAIN values : Lower(t) = Lower(values[i])

\* Mutant: the conditions of the fields are joined with OR.
FiltersHold_AnyField(x, f) ==
    \/ \A k \in DOMAIN f : Len(f[k]) = 0
    \/ \E k \in DOMAIN f : Len(f[k]) # 0 /\ EqualsAny(x[FIELD_MAP[k]], f[k])

\* for (const [key, values] of Object.entries(filters)): one condition for
\* each key with values, all joined with AND.
FiltersHold(x, f) ==
    \A k \in DOMAIN f : Len(f[k]) # 0 => EqualsAny(x[FIELD_MAP[k]], f[k])

\* i."ScannedCode" as a text: a scan code is a text of one symbol.
CodeText(c) == <<c>>

\* The free-text condition: the pattern occurs in one of the columns.
TextMatch(x, q) ==
    \/ ILike(CodeText(x.ScannedCode), q)
    \/ \E col \in TextColumns : ILike(x[col], q)

\* whereSQL: the free-text condition, when there is a pattern, AND the
\* conditions of the filters.
Where(x, query) ==
    /\ qRaw(query) # EmptyText => TextMatch(x, qRaw(query))
    /\ FiltersHold(x, filters(query))

\* Mutant: NULLS FIRST.
KeyBefore_NullsFirst(s, t) ==
    IF t = NullText THEN FALSE ELSE IF s = NullText THEN TRUE ELSE TextBefore(s, t)

\* One key of the ORDER BY, NULLS LAST.
KeyBefore(s, t) ==
    IF s = NullText THEN FALSE ELSE IF t = NullText THEN TRUE ELSE TextBefore(s, t)

\* ORDER BY i."Brand" NULLS LAST, i."Model" NULLS LAST, i."ScannedCode"
RowBefore(x, y) ==
    \/ KeyBefore(x.Brand, y.Brand)
    \/ x.Brand = y.Brand /\ KeyBefore(x.Model, y.Model)
    \/ x.Brand = y.Brand /\ x.Model = y.Model
       /\ CodeRank[x.ScannedCode] < CodeRank[y.ScannedCode]

\* The sort of the selected rows (a merge sort).
RECURSIVE SetToSeq(_)
SetToSeq(S) ==
    IF S = {} THEN <<>>
    ELSE LET x == CHOOSE y \in S : TRUE IN <<x>> \o SetToSeq(S \ {x})
RECURSIVE Merge(_, _)
Merge(a, b) ==
    IF a = <<>> THEN b
    ELSE IF b = <<>> THEN a
    ELSE IF RowBefore(Head(b), Head(a)) THEN <<Head(b)>> \o Merge(a, Tail(b))
    ELSE <<Head(a)>> \o Merge(Tail(a), b)
RECURSIVE MergeSort(_)
MergeSort(s) ==
    IF Len(s) <= 1 THEN s
    ELSE Merge(MergeSort(SubSeq(s, 1, Len(s) \div 2)),
               MergeSort(SubSeq(s, Len(s) \div 2 + 1, Len(s))))
OrderBy(S) == MergeSort(SetToSeq(S))

\* LIMIT ${limit}
Limit(rows) == SubSeq(rows, 1, Min(Len(rows), limit))

\* COALESCE(oh.on_hand, 0) of the LEFT JOIN
JoinOnHand(c) == IF c \in DOMAIN onhand THEN OnHand(c) ELSE 0
Hit(x) == [f \in DOMAIN x \cup {"onHand"} |->
              IF f = "onHand" THEN JoinOnHand(x.ScannedCode) ELSE x[f]]

\* The rows of the SELECT.
SearchRows(query) ==
    LET rows == Limit(OrderBy({x \in catalog : Where(x, query)}))
    IN [i \in DOMAIN rows |-> Hit(rows[i])]

\* Mutant: a query key outside FIELD_MAP is answered 400 INVALID_FIELD.
Search_RejectsUnknown(query) ==
    /\ reply' = IF query.price # NullText
                THEN Reply("search", query, 400, "INVALID_FIELD", <<>>)
                ELSE Reply("search", query, 200, "none", SearchRows(query))
    /\ UNCHANGED <<db, locks, txn, pc, op, code, meta, body, resp>>

\* app.get('/items/search'): one statement, answered with its rows.
Search(query) ==
    /\ reply' = Reply("search", query, 200, "none", SearchRows(query))
    /\ UNCHANGED <<db, locks, txn, pc, op, code, meta, body, resp>>

\* catch (e) { res.status(500) }: the statement throws.
SearchFails(query) ==
    /\ reply' = Reply("search", query, 500, "SERVER_ERROR", <<>>)
    /\ UNCHANGED <<db, locks, txn, pc, op, code, meta, body, resp>>

\* ------------------------------------------------------------------ GET /items/distinct

\* String(req.query.field || '').toLowerCase(), on the field names of the model.
toLowerCase(name) ==
    IF name = "Brand" THEN "brand" ELSE IF name = "MODEL" THEN "model" ELSE name

\* const col = FIELD_MAP[fieldParam]: the column of an allow-listed key, an
\* inherited property (which is not a column), or undefined.
Column(k) ==
    IF k \in DOMAIN FIELD_MAP THEN FIELD_MAP[k]
    ELSE IF k \in Inherited THEN "inherited"
    ELSE "undefined"

\* WHERE col IS NOT NULL AND btrim(col) <> '' GROUP BY col
Groups(col) ==
    {x[col] : x \in {y \in catalog : y[col] # NullText /\ btrim(y[col]) # EmptyText}}

\* SELECT col AS value, COUNT(*)::int AS count
GroupRow(col, v) == [value |-> v, count |-> Cardinality({x \in catalog : x[col] = v})]

\* ORDER BY lower(col): the groups in an order in which the lower-case
\* values ascend; groups whose lower-case values are equal come in any order.
OrderedGroups(col) ==
    LET G == {GroupRow(col, v) : v \in Groups(col)}
    IN {s \in [1..Cardinality(G) -> G] :
          /\ \A i, j \in DOMAIN s : i # j => s[i] # s[j]
          /\ \A i, j \in DOMAIN s :
               i < j => ~TextBefore(Lower(s[j].value), Lower(s[i].value))}

\* app.get('/items/distinct'): 400 when the lookup gives nothing; a lookup
\* that gives an inherited property puts no column into the statement, which
\* then throws (500); otherwise the grouped rows.
Distinct(field) ==
    /\ LET col == Column(toLowerCase(field))
       IN IF col = "undefined"
          THEN reply' = Reply("distinct", field, 400, "INVALID_FIELD", <<>>)
          ELSE IF col = "inherited"
          THEN reply' = Reply("distinct", field, 500, "SERVER_ERROR", <<>>)
          ELSE \E rows \in OrderedGroups(col) :
                  reply' = Reply("distinct", field, 200, "none", rows)
    /\ UNCHANGED <<db, locks, txn, pc, op, code, meta, body, resp>>

\* catch (e) { res.status(500) }: the statement throws.
DistinctFails(field) ==
    /\ Column(toLowerCase(field)) \in {FIELD_MAP[k] : k \in DOMAIN FIELD_MAP}
    /\ reply' = Reply("distinct", field, 500, "SERVER_ERROR", <<>>)
    /\ UNCHANGED <<db, locks, txn, pc, op, code, meta, body, resp>>

\* ------------------------------------------------------------------ storage failures

InTxn(r) == pc[r] \in {"begin", "insert", "select", "notfound", "ensure", "update",
                       "event", "read", "lock", "oos", "commit"}

\* An awaited statement throws: control passes to the handler's catch block;
\* the transaction cannot commit any more and keeps its locks until it ends.
StatementFails(r) ==
    /\ InTxn(r)
    /\ Goto(r, "catch")
    /\ UNCHANGED <<db, locks, txn, op, code, meta, body, resp>>

\* COMMIT takes effect and the failure strikes after it: the handler still
\* lands in its catch block.
CommitThenFails(r) ==
    /\ pc[r] = "commit"
    /\ CommitWrites(r)
    /\ EndTxn(r)
    /\ Goto(r, "catch")
    /\ UNCHANGED <<op, code, meta, body, resp>>

\* catch (e) { await client.query('ROLLBACK'); res.status(500) }
Catch(r) ==
    /\ pc[r] = "catch"
    /\ Rollback(r)
    /\ Send(r, Response(500, "SERVER_ERROR", NoRow))

\* The ROLLBACK of the catch block throws too: the handler ends without a
\* response; the store ends the transaction of the broken connection.
CatchFails(r) ==
    /\ pc[r] = "catch"
    /\ Rollback(r)
    /\ Goto(r, "done")
    /\ UNCHANGED <<op, code, meta, body, resp>>

\* ------------------------------------------------------------------ specifications

Arrive(r) ==
    \E c \in Codes \cup {Empty} :
        \/ \E b \in Bodies : Receive(r, "items", c, NoMeta, b)
        \/ Receive(r, "add", c, NoMeta, NoBody)
        \/ Receive(r, "initiate", c, NoMeta, NoBody)
        \/ \E m \in Metas : Receive(r, "confirm", c, m, NoBody)

\* The history variables count the calls as their responses are sent.
Answers(r, b) == pc[r] # "done" /\ pc'[r] = "done" /\ resp'[r].body = b
CountCalls(r) ==
    /\ nAdded' = IF Answers(r, "ADDED")
                 THEN [nAdded EXCEPT ![code[r]] = @ + 1] ELSE nAdded
    /\ nRemoved' = IF Answers(r, "REMOVED")
                   THEN [nRemoved EXCEPT ![code[r]] = @ + 1] ELSE nRemoved

\* The end-to-end scenario of section 8, followed call by call: a catalog
\* write for a scan code not in the catalog (stage 1), then for the same code
\* AddOne (2), InitiateRemove (3) and ConfirmRemove (4), nothing in between.
\* Any other call starts over.
Completes(r) == pc[r] \notin {"idle", "done", "sent"} /\ pc'[r] \in {"done", "sent"}
Rejected(r) == pc[r] = "idle" /\ pc'[r] = "sent"
NextStage(r) ==
    IF op[r] = "items" /\ code[r] \notin items THEN [code |-> code[r], stage |-> 1]
    ELSE IF code[r] # scenario.code THEN NoScenario
    ELSE IF scenario.stage = 1 /\ op[r] = "add" THEN [scenario EXCEPT !.stage = 2]
    ELSE IF scenario.stage = 2 /\ op[r] = "initiate" THEN [scenario EXCEPT !.stage = 3]
    ELSE IF scenario.stage = 3 /\ op[r] = "confirm" THEN [scenario EXCEPT !.stage = 4]
    ELSE NoScenario
FollowScenario(r) ==
    scenario' = IF Completes(r) THEN NextStage(r)
                ELSE IF Rejected(r) THEN NoScenario
                ELSE scenario

\* What the sequential specification records of a step.
Observe(r) == CountCalls(r) /\ FollowScenario(r)
AllIdle == \A q \in Reqs : Idle(q)

\* Concurrent requests, with storage failures.
Next ==
    \E r \in Reqs :
        \/ Arrive(r) /\ UNCHANGED <<hist, client>>
        \/ Begin(r) /\ UNCHANGED <<hist, client>>
        \/ Release(r) /\ UNCHANGED <<hist, client>>
        \/ ItemsInsert(r) /\ UNCHANGED <<hist, client>>
        \/ ItemsEnsure(r) /\ UNCHANGED <<hist, client>>
        \/ ItemsCommit(r) /\ UNCHANGED <<hist, client>>
        \/ AddSelect(r) /\ UNCHANGED <<hist, client>>
        \/ AddNotFound(r) /\ UNCHANGED <<hist, client>>
        \/ AddEnsure(r) /\ UNCHANGED <<hist, client>>
        \/ AddUpdate(r) /\ UNCHANGED <<hist, client>>
        \/ AddEvent(r) /\ UNCHANGED <<hist, client>>
        \/ AddCommit(r) /\ UNCHANGED <<hist, client>>
        \/ InitiateSelect(r) /\ UNCHANGED <<hist, client>>
        \/ InitiateNotFound(r) /\ UNCHANGED <<hist, client>>
        \/ InitiateEnsure(r) /\ UNCHANGED <<hist, client>>
        \/ InitiateRead(r) /\ UNCHANGED <<hist, client>>
        \/ InitiateCommit(r) /\ UNCHANGED <<hist, client>>
        \/ ConfirmSelect(r) /\ UNCHANGED <<hist, client>>
        \/ ConfirmNotFound(r) /\ UNCHANGED <<hist, client>>
        \/ ConfirmLock(r) /\ UNCHANGED <<hist, client>>
        \/ ConfirmOutOfStock(r) /\ UNCHANGED <<hist, client>>
        \/ ConfirmUpdate(r) /\ UNCHANGED <<hist, client>>
        \/ ConfirmEvent(r) /\ UNCHANGED <<hist, client>>
        \/ ConfirmCommit(r) /\ UNCHANGED <<hist, client>>
        \/ StatementFails(r) /\ UNCHANGED <<hist, client>>
        \/ CommitThenFails(r) /\ UNCHANGED <<hist, client>>
        \/ Catch(r) /\ UNCHANGED <<hist, client>>
        \/ CatchFails(r) /\ UNCHANGED <<hist, client>>
Spec == Init /\ [][Next]_vars

\* One request at a time, no storage failure; the calls are counted and the
\* scenario is followed.
NextSeq ==
    \E r \in Reqs :
        \/ AllIdle /\ Arrive(r) /\ Observe(r) /\ UNCHANGED client
        \/ Begin(r) /\ Observe(r) /\ UNCHANGED client
        \/ Release(r) /\ Observe(r) /\ UNCHANGED client
        \/ ItemsInsert(r) /\ Observe(r) /\ UNCHANGED client
        \/ ItemsEnsure(r) /\ Observe(r) /\ UNCHANGED client
        \/ ItemsCommit(r) /\ Observe(r) /\ UNCHANGED client
        \/ AddSelect(r) /\ Observe(r) /\ UNCHANGED client
        \/ AddNotFound(r) /\ Observe(r) /\ UNCHANGED client
        \/ AddEnsure(r) /\ Observe(r) /\ UNCHANGED client
        \/ AddUpdate(r) /\ Observe(r) /\ UNCHANGED client
        \/ AddEvent(r) /\ Observe(r) /\ UNCHANGED client
        \/ AddCommit(r) /\ Observe(r) /\ UNCHANGED client
        \/ InitiateSelect(r) /\ Observe(r) /\ UNCHANGED client
        \/ InitiateNotFound(r) /\ Observe(r) /\ UNCHANGED client
        \/ InitiateEnsure(r) /\ Observe(r) /\ UNCHANGED client
        \/ InitiateRead(r) /\ Observe(r) /\ UNCHANGED client
        \/ InitiateCommit(r) /\ Observe(r) /\ UNCHANGED client
        \/ ConfirmSelect(r) /\ Observe(r) /\ UNCHANGED client
        \/ ConfirmNotFound(r) /\ Observe(r) /\ UNCHANGED client
        \/ ConfirmLock(r) /\ Observe(r) /\ UNCHANGED client
        \/ ConfirmOutOfStock(r) /\ Observe(r) /\ UNCHANGED client
        \/ ConfirmUpdate(r) /\ Observe(r) /\ UNCHANGED client
        \/ ConfirmEvent(r) /\ Observe(r) /\ UNCHANGED client
        \/ ConfirmCommit(r) /\ Observe(r) /\ UNCHANGED client
SpecSeq == Init /\ [][NextSeq]_vars

\* A batch of concurrent removals: item X1 holds k units after k answered
\* AddOne calls, n ConfirmRemove requests for it have arrived together, and
\* nothing else arrives; the responses stay in place.
BatchCode == "X1"
InitBatch ==
    \E k \in 0..MaxBatchQty, n \in 1..NumReqs :
        /\ items = {BatchCode}
        /\ catalog = {StoredRow(BatchCode)}
        /\ onhand = [c \in Codes |-> IF c = BatchCode THEN k ELSE NoRow]
        /\ events = [e \in (IF k = 0 THEN {} ELSE {AddEventRow(BatchCode)}) |-> k]
        /\ rowLock = [c \in Codes |-> NoLock]
        /\ itemLock = [c \in Codes |-> NoLock]
        /\ pc = [r \in Reqs |-> IF r <= n THEN "begin" ELSE "idle"]
        /\ op = [r \in Reqs |-> IF r <= n THEN "confirm" ELSE "none"]
        /\ code = [r \in Reqs |-> IF r <= n THEN BatchCode ELSE Empty]
        /\ meta \in [Reqs -> Metas]
        /\ \A r \in Reqs : r > n => meta[r] = NoMeta
        /\ body = [r \in Reqs |-> NoBody]
        /\ ohRead = [r \in Reqs |-> NoRow]
        /\ wItem = [r \in Reqs |-> FALSE]
        /\ wRow = [r \in Reqs |-> NoItem]
        /\ wOnhand = [r \in Reqs |-> NoWrite]
        /\ wEvents = [r \in Reqs |-> EmptyBag]
        /\ resp = [r \in Reqs |-> NoResponse]
        /\ nAdded = [c \in Codes |-> IF c = BatchCode THEN k ELSE 0]
        /\ nRemoved = [c \in Codes |-> 0]
        /\ scenario = NoScenario
        /\ reply = NoReply
        /\ ui = NoSession
        /\ await = NoAwait
        /\ sent = <<>>
NextBatch ==
    \E r \in Reqs :
        \/ Begin(r) /\ CountCalls(r) /\ UNCHANGED <<scenario, client>>
        \/ ConfirmSelect(r) /\ CountCalls(r) /\ UNCHANGED <<scenario, client>>
        \/ ConfirmLock(r) /\ CountCalls(r) /\ UNCHANGED <<scenario, client>>
        \/ ConfirmOutOfStock(r) /\ CountCalls(r) /\ UNCHANGED <<scenario, client>>
        \/ ConfirmUpdate(r) /\ CountCalls(r) /\ UNCHANGED <<scenario, client>>
        \/ ConfirmEvent(r) /\ CountCalls(r) /\ UNCHANGED <<scenario, client>>
        \/ ConfirmCommit(r) /\ CountCalls(r) /\ UNCHANGED <<scenario, client>>
SpecBatch == InitBatch /\ [][NextBatch]_vars

\* Concurrent AddOne and ConfirmRemove requests for one scan code, no
\* storage failure; the calls are counted as they are answered.
ArriveMix(r) ==
    \/ Receive(r, "add", "X1", NoMeta, NoBody)
    \/ \E m \in Metas : Receive(r, "confirm", "X1", m, NoBody)
NextMix ==
    \E r \in Reqs :
        \/ ArriveMix(r) /\ CountCalls(r) /\ UNCHANGED <<scenario, client>>
        \/ Begin(r) /\ CountCalls(r) /\ UNCHANGED <<scenario, client>>
        \/ Release(r) /\ CountCalls(r) /\ UNCHANGED <<scenario, client>>
        \/ AddSelect(r) /\ CountCalls(r) /\ UNCHANGED <<scenario, client>>
        \/ AddNotFound(r) /\ CountCalls(r) /\ UNCHANGED <<scenario, client>>
        \/ AddEnsure(r) /\ CountCalls(r) /\ UNCHANGED <<scenario, client>>
        \/ AddUpdate(r) /\ CountCalls(r) /\ UNCHANGED <<scenario, client>>
        \/ AddEvent(r) /\ CountCalls(r) /\ UNCHANGED <<scenario, client>>
        \/ AddCommit(r) /\ CountCalls(r) /\ UNCHANGED <<scenario, client>>
        \/ ConfirmSelect(r) /\ CountCalls(r) /\ UNCHANGED <<scenario, client>>
        \/ ConfirmNotFound(r) /\ CountCalls(r) /\ UNCHANGED <<scenario, client>>
        \/ ConfirmLock(r) /\ CountCalls(r) /\ UNCHANGED <<scenario, client>>
        \/ ConfirmOutOfStock(r) /\ CountCalls(r) /\ UNCHANGED <<scenario, client>>
        \/ ConfirmUpdate(r) /\ CountCalls(r) /\ UNCHANGED <<scenario, client>>
        \/ ConfirmEvent(r) /\ CountCalls(r) /\ UNCHANGED <<scenario, client>>
        \/ ConfirmCommit(r) /\ CountCalls(r) /\ UNCHANGED <<scenario, client>>
SpecMix == Init /\ [][NextMix]_vars

\* Concurrent catalog writes with every kind of body.
ArriveItems(r) ==
    \E c \in Codes \cup {Empty}, b \in CatBodies : Receive(r, "items", c, NoMeta, b)
NextCat ==
    \E r \in Reqs :
        \/ ArriveItems(r) /\ UNCHANGED <<hist, client>>
        \/ Begin(r) /\ UNCHANGED <<hist, client>>
        \/ Release(r) /\ UNCHANGED <<hist, client>>
        \/ ItemsInsert(r) /\ UNCHANGED <<hist, client>>
        \/ ItemsEnsure(r) /\ UNCHANGED <<hist, client>>
        \/ ItemsCommit(r) /\ UNCHANGED <<hist, client>>
SpecCat == Init /\ [][NextCat]_vars

\* The GET requests over a catalog that does not change.  The catalogs: up
\* to MaxRows rows of every kind of Brand and Model, and catalogs of as many
\* and of more rows than the LIMIT.  A row loaded into the table from
\* elsewhere may lack a Model.
MaxRows == 3
RowTexts ==
    {<<NullText, <<"a">>>>, <<<<"a">>, <<"B">>>>, <<<<"A">>, NullText>>,
     <<<<" ">>, <<"a">>>>, <<EmptyText, <<"b">>>>, <<<<"B">>, <<"a">>>>,
     <<<<"a">>, <<"a">>>>, <<<<"a", " ">>, <<"b">>>>}
RowWith(i, b, m) == [StoredRow(BrowseCode(i)) EXCEPT !.Brand = b, !.Model = m]
SmallCatalogs ==
    {{RowWith(i, f[i][1], f[i][2]) : i \in DOMAIN f} :
        f \in UNION {[I -> RowTexts] : I \in SUBSET (1..MaxRows)}}
BigCatalog(n) ==
    {RowWith(i, IF i % 2 = 0 THEN <<"B">> ELSE NullText,
                IF i % 3 = 0 THEN NullText ELSE <<"a">>) : i \in 1..n}
BrandedCatalog(n) ==
    {RowWith(i, IF i % 2 = 0 THEN <<"B">> ELSE <<"b">>, <<"a">>) : i \in 1..n}
SearchCatalogs ==
    SmallCatalogs
    \cup {BigCatalog(limit), BigCatalog(limit + 1), BrandedCatalog(limit + 1)}

\* req.query of GET /items/search: q, two allow-listed keys and a key that
\* is not allow-listed; NullText is a missing parameter.
Queries ==
    [q : {NullText, <<" ">>, <<"a">>},
     brand : {NullText, <<"a">>, <<"A", ",", "b">>, <<" ", "a", ",", " ">>},
     model : {NullText, <<"b">>},
     price : {NullText, <<"a">>}]
FieldParams == {"", "brand", "Brand", "model", "price", "constructor"}

InitSearch ==
    /\ catalog \in SearchCatalogs
    /\ items = {x.ScannedCode : x \in catalog}
    /\ onhand = [c \in Codes |-> NoRow]
    /\ events = EmptyBag
    /\ rowLock = [c \in Codes |-> NoLock]
    /\ itemLock = [c \in Codes |-> NoLock]
    /\ pc = [r \in Reqs |-> "idle"]
    /\ op = [r \in Reqs |-> "none"]
    /\ code = [r \in Reqs |-> Empty]
    /\ meta = [r \in Reqs |-> NoMeta]
    /\ body = [r \in Reqs |-> NoBody]
    /\ ohRead = [r \in Reqs |-> NoRow]
    /\ wItem = [r \in Reqs |-> FALSE]
    /\ wRow = [r \in Reqs |-> NoItem]
    /\ wOnhand = [r \in Reqs |-> NoWrite]
    /\ wEvents = [r \in Reqs |-> EmptyBag]
    /\ resp = [r \in Reqs |-> NoResponse]
    /\ nAdded = [c \in Codes |-> 0]
    /\ nRemoved = [c \in Codes |-> 0]
    /\ scenario = NoScenario
    /\ reply = NoReply
    /\ ui = NoSession
    /\ await = NoAwait
    /\ sent = <<>>
\* A GET handler changes nothing it reads, so its response does not depend
\* on the requests before it: each behaviour makes one request.
NextSearch ==
    \/ \E query \in Queries : reply = NoReply /\ Search(query) /\ UNCHANGED <<hist, ui, await, sent>>
    \/ \E query \in Queries : reply = NoReply /\ SearchFails(query) /\ UNCHANGED <<hist, ui, await, sent>>
    \/ \E field \in FieldParams : reply = NoReply /\ Distinct(field) /\ UNCHANGED <<hist, ui, await, sent>>
    \/ \E field \in FieldParams : reply = NoReply /\ DistinctFails(field) /\ UNCHANGED <<hist, ui, await, sent>>
SpecSearch == InitSearch /\ [][NextSearch]_vars


\* ------------------------------------------------------------------ web UI (App.tsx)

\* Quiet: no handler of the UI is waiting for a response and the server has
\* released every request's connection (the finally block that follows its
\* response).  Awaited(r): a handler of the UI waits for the response of r.
Quiet == await = NoAwait /\ AllIdle
Awaited(r) == \E a \in await : a.slot = r

\* The response of request s has been sent (a handler whose catch block
\* threw ends without one).
Responded(s) == pc[s] \in {"done", "sent"} /\ resp[s] # NoResponse

\* A request the UI issued: its route, its code and, for a search, its query.
NoQuery == [q |-> NullText, brand |-> NullText, model |-> NullText, price |-> NullText]
Request(rt, c, qy) == [route |-> rt, code |-> c, query |-> qy]

\* Array.from(sel).join(',')
RECURSIVE Join(_)
Join(S) ==
    IF S = {} THEN EmptyText
    ELSE LET v == CHOOSE x \in S : TRUE
         IN IF S = {v} THEN v ELSE v \o <<",">> \o Join(S \ {v})

\* makeQueryString(term, f): q when the term is not empty, and each
\* filterable key that has selected values.
makeQueryString(term, f) ==
    [k \in {"q", "price"} \cup FILTERABLE |->
        IF k = "q" THEN (IF term = EmptyText THEN NullText ELSE term)
        ELSE IF k = "price" THEN NullText
        ELSE IF f[k] = {} THEN NullText ELSE Join(f[k])]

\* runSearch(term, f) from the state u: GET /items/search, then setResults
\* and setSearchSummary.
runSearch(term, f, u) ==
    /\ Search(makeQueryString(term, f))
    /\ ui' = [u EXCEPT !.results = reply'.rows,
                       !.searchSummary = <<term, Len(reply'.rows)>>]

\* useEffect(() => { if (mode === 'search') runSearch('') }, [mode]): runs
\* after a handler that left the state u, when u's mode is not the mode of
\* the render before; runSearch('') reads the filters of that state.
ModeEffect(u) ==
    IF u.mode # ui.mode /\ u.mode = "search"
    THEN /\ runSearch(EmptyText, u.filters, u)
         /\ sent' = <<Request("search", Empty, makeQueryString(EmptyText, u.filters))>>
    ELSE /\ ui' = u
         /\ sent' = <<>>
         /\ UNCHANGED <<server, reply>>

\* What is typed or scanned into the input.
ScanInputs ==
    {<<" ">>, ADD_CODE, <<" ">> \o REMOVE_CODE, SEARCH_CODE,
     <<"X1">>, <<"a", " ">>}

\* onChange={e => setScanInput(e.target.value)}
onChange(v) ==
    /\ ui' = [ui EXCEPT !.scanInput = v]
    /\ UNCHANGED <<server, reply, await, sent>>

\* if (mode === 'idle')
IsIdle_Never(m) == FALSE
IsIdle(m) == m = "idle"

\* handleSubmit, up to its first POST; the Submit button is disabled while
\* pendingItem or confirmRemove is set.  GET /items/:code answers 404 when
\* no row has the code.
handleSubmit ==
    /\ ui.pendingItem = NoPending /\ ui.confirmRemove = NoConfirm
    /\ LET scanned == Trim(ui.scanInput)
           cleared == [ui EXCEPT !.scanInput = EmptyText, !.results = <<>>,
                                 !.searchSummary = <<>>]
       IN IF scanned = EmptyText
          THEN /\ sent' = <<>>
               /\ UNCHANGED <<ui, await, server, reply>>
          ELSE IF scanned = ADD_CODE
          THEN /\ ModeEffect([cleared EXCEPT !.mode = "add", !.toast = "Add mode enabled."])
               /\ UNCHANGED await
          ELSE IF scanned = REMOVE_CODE
          THEN /\ ModeEffect([cleared EXCEPT !.mode = "remove",
                                             !.toast = "Remove mode enabled."])
               /\ UNCHANGED await
          ELSE IF scanned = SEARCH_CODE
          THEN /\ ModeEffect([cleared EXCEPT !.mode = "search",
                                             !.toast = "Search mode enabled.",
                                             !.searchTerm = EmptyText])
               /\ UNCHANGED await
          ELSE IF IsIdle(ui.mode)
          THEN /\ ui' = [ui EXCEPT !.toast = "No mode selected.", !.scanInput = EmptyText]
               /\ sent' = <<>>
               /\ UNCHANGED <<await, server, reply>>
          ELSE IF ui.mode = "search"
          THEN /\ runSearch(scanned, ui.filters,
                            [ui EXCEPT !.searchTerm = scanned, !.toast = "",
                                       !.scanInput = EmptyText])
               /\ sent' = <<Request("search", Empty, makeQueryString(scanned, ui.filters))>>
               /\ UNCHANGED await
          ELSE IF scanned[1] \notin items
          THEN /\ ui' = [ui EXCEPT !.pendingItem = [code |-> scanned[1]],
                                   !.toast = "Unknown item. Please create it.",
                                   !.scanInput = EmptyText]
               /\ sent' = <<Request("lookup", scanned[1], NoQuery)>>
               /\ UNCHANGED <<await, server, reply>>
          ELSE \E r \in Reqs :
                 LET route == IF ui.mode = "add" THEN "add" ELSE "initiate"
                 IN /\ Receive(r, route, scanned[1], NoMeta, NoBody)
                    /\ await' = await \cup {[on |-> route, slot |-> r]}
                    /\ sent' = <<Request("lookup", scanned[1], NoQuery),
                                 Request(route, scanned[1], NoQuery)>>
                    /\ UNCHANGED <<ui, reply>>

\* handleSubmit in Add mode, after POST /inventory/add is answered.
AddAnswered(s) ==
    /\ [on |-> "add", slot |-> s] \in await /\ Responded(s)
    /\ ui' = IF resp[s].http = 201
             THEN [ui EXCEPT !.toast = "Added", !.scanInput = EmptyText]
             ELSE [ui EXCEPT !.toast = "Error processing"]
    /\ await' = await \ {[on |-> "add", slot |-> s]}
    /\ UNCHANGED <<server, reply, sent>>

\* handleSubmit in Remove mode, after POST /inventory/remove/initiate is
\* answered.
InitiateAnswered(s) ==
    /\ [on |-> "initiate", slot |-> s] \in await /\ Responded(s)
    /\ LET data == resp[s]
       IN ui' = IF data.http # 200 THEN [ui EXCEPT !.toast = "Error processing"]
                ELSE IF data.body = "CONFIRM_REQUIRED"
                THEN [ui EXCEPT !.confirmRemove =
                                    [item |-> code[s], onHand |-> data.onHand,
                                     form |-> NewForm],
                                !.toast = "Confirm removal"]
                ELSE [ui EXCEPT !.toast = "not in stock (registered at 0)",
                                !.scanInput = EmptyText]
    /\ await' = await \ {[on |-> "initiate", slot |-> s]}
    /\ UNCHANGED <<server, reply, sent>>

\* NewItemModal: onClose
onClose ==
    /\ ui.pendingItem # NoPending
    /\ ui' = [ui EXCEPT !.pendingItem = NoPending]
    /\ sent' = <<>>
    /\ UNCHANGED <<server, reply, await>>

\* The fields of NewItemModal next to ScannedCode: the date is always sent,
\* Brand || null, Model.trim().
ModalBodies ==
    {[InventoryDate |-> "d1", Brand |-> NullText, Model |-> <<"b">>, Qty |-> 2],
     [InventoryDate |-> "d1", Brand |-> NullText, Model |-> EmptyText, Qty |-> NullQty]}

\* NewItemModal: submit, up to POST /items.  ScannedCode starts as the
\* scanned code and can be edited.
submit ==
    /\ ui.pendingItem # NoPending
    /\ \E c \in Codes, b \in ModalBodies, r \in Reqs :
         /\ Receive(r, "items", c, NoMeta, b)
         /\ await' = await \cup {[on |-> "create", slot |-> r]}
         /\ sent' = <<Request("items", c, NoQuery)>>
         /\ UNCHANGED <<ui, reply>>

\* NewItemModal: submit after POST /items is answered, and onCreated(item)
\* up to its POST.
onCreated(s) ==
    /\ [on |-> "create", slot |-> s] \in await /\ Responded(s)
    /\ IF resp[s].http # 201
       THEN /\ await' = await \ {[on |-> "create", slot |-> s]}
            /\ UNCHANGED <<ui, server, reply, sent>>
       ELSE LET item == code[s]
                u == [ui EXCEPT !.pendingItem = NoPending]
            IN IF ui.mode = "add"
               THEN \E r \in Reqs :
                      /\ Receive(r, "add", item, NoMeta, NoBody)
                      /\ ui' = u
                      /\ await' = (await \ {[on |-> "create", slot |-> s]}) \cup {[on |-> "createAdd", slot |-> r]}
                      /\ sent' = Append(sent, Request("add", item, NoQuery))
                      /\ UNCHANGED reply
               ELSE /\ ui' = IF ui.mode = "remove"
                             THEN [u EXCEPT !.toast = "Item created and registered with quantity 0",
                                            !.scanInput = EmptyText]
                             ELSE u
                    /\ await' = await \ {[on |-> "create", slot |-> s]}
                    /\ UNCHANGED <<server, reply, sent>>

\* onCreated in Add mode, after POST /inventory/add is answered.
CreatedAddAnswered(s) ==
    /\ [on |-> "createAdd", slot |-> s] \in await /\ Responded(s)
    /\ ui' = IF resp[s].http = 201
             THEN [ui EXCEPT !.toast = "Item created and added", !.scanInput = EmptyText]
             ELSE [ui EXCEPT !.toast = "Post-create action failed"]
    /\ await' = await \ {[on |-> "createAdd", slot |-> s]}
    /\ UNCHANGED <<server, reply, sent>>

\* What the operator leaves in the form.
Forms ==
    {NewForm,
     [orderId |-> "A17", source |-> "shop", dateSubtracted |-> "d1"],
     [orderId |-> "", source |-> "shop", dateSubtracted |-> ""]}

\* setOrderId, setWhereBought, setDateSub: the operator fills in the form.
setForm(f) ==
    /\ ui.confirmRemove # NoConfirm
    /\ ui' = [ui EXCEPT !.confirmRemove.form = f]
    /\ UNCHANGED <<server, reply, await, sent>>

\* The payload of the "Yes, remove 1" button: orderId || null,
\* whereBought || null, dateSub ? new Date(dateSub).toISOString() : null.
Payload(form) ==
    [orderId |-> IF form.orderId = "" THEN Null ELSE form.orderId,
     source |-> IF form.source = "" THEN Null ELSE form.source,
     dateSubtracted |-> IF form.dateSubtracted = "" THEN Null ELSE form.dateSubtracted]

\* The variant of the mobile-aware App: onConfirm={async (extra) => ...} with
\* body: JSON.stringify({ barcode: ..., ...extra }).
ConfirmBody_Spread(extra) == extra

\* body: JSON.stringify({ barcode: confirmRemove.item.ScannedCode }): the
\* handler takes no parameter, so the payload is not in the body, and the
\* server reads "Order Id", "Where bought from" and "Date Subtracted" as
\* undefined.
ConfirmBody(extra) == NoMeta

\* Mutant: "No" runs the handler of "Yes".
onCancel_Confirms ==
    /\ ui.confirmRemove # NoConfirm
    /\ \E r \in Reqs :
         /\ Receive(r, "confirm", ui.confirmRemove.item, NoMeta, NoBody)
         /\ ui' = [ui EXCEPT !.confirmRemove = NoConfirm]
         /\ sent' = <<Request("confirm", ui.confirmRemove.item, NoQuery)>>
         /\ UNCHANGED <<reply, await>>

\* ConfirmRemoveModal: onCancel
onCancel ==
    /\ ui.confirmRemove # NoConfirm
    /\ ui' = [ui EXCEPT !.confirmRemove = NoConfirm]
    /\ sent' = <<>>
    /\ UNCHANGED <<server, reply, await>>

\* ConfirmRemoveModal: onConfirm, up to POST /inventory/remove/confirm.
onConfirm ==
    /\ ui.confirmRemove # NoConfirm
    /\ \E r \in Reqs :
         /\ Receive(r, "confirm", ui.confirmRemove.item,
                    ConfirmBody(Payload(ui.confirmRemove.form)), NoBody)
         /\ await' = await \cup {[on |-> "confirm", slot |-> r]}
         /\ sent' = <<Request("confirm", ui.confirmRemove.item, NoQuery)>>
         /\ UNCHANGED <<ui, reply>>

\* Mutant: no finally block; the modal is closed on success only.
ConfirmAnswered_NoFinally(s) ==
    /\ [on |-> "confirm", slot |-> s] \in await /\ Responded(s)
    /\ ui' = IF resp[s].http = 200
             THEN [ui EXCEPT !.toast = "Removed 1", !.confirmRemove = NoConfirm,
                             !.scanInput = EmptyText]
             ELSE [ui EXCEPT !.toast = "Failed to remove"]
    /\ await' = await \ {[on |-> "confirm", slot |-> s]}
    /\ UNCHANGED <<server, reply, sent>>

\* onConfirm after the answer, and its finally block.
ConfirmAnswered(s) ==
    /\ [on |-> "confirm", slot |-> s] \in await /\ Responded(s)
    /\ LET t == IF resp[s].http = 200 THEN "Removed 1"
                ELSE IF resp[s].body = "OUT_OF_STOCK" THEN "Already out of stock."
                ELSE "Failed to remove"
       IN ui' = [ui EXCEPT !.toast = t, !.confirmRemove = NoConfirm,
                           !.scanInput = EmptyText]
    /\ await' = await \ {[on |-> "confirm", slot |-> s]}
    /\ UNCHANGED <<server, reply, sent>>

\* onConfirm when fetch rejects (the network fails before a response
\* arrives): the catch block, then the finally block.  What the server does
\* with the request is not known to the UI.
ConfirmFetchFails(s) ==
    /\ [on |-> "confirm", slot |-> s] \in await
    /\ ui' = [ui EXCEPT !.toast = "Remove failed", !.confirmRemove = NoConfirm,
                        !.scanInput = EmptyText]
    /\ await' = await \ {[on |-> "confirm", slot |-> s]}
    /\ UNCHANGED <<server, reply, sent>>

\* The values of the filter menus.
FilterValues == {<<"a">>}

\* The filter handlers of the search table (rendered in Search mode): each
\* sets the next filters and runs the search of the current term with them.
ApplyFilters(next) ==
    /\ ui.mode = "search"
    /\ runSearch(ui.searchTerm, next, [ui EXCEPT !.filters = next])
    /\ sent' = <<Request("search", Empty, makeQueryString(ui.searchTerm, next))>>
    /\ UNCHANGED await
toggleFilter(queryKey, value) ==
    ApplyFilters([ui.filters EXCEPT ![queryKey] =
                     IF value \in @ THEN @ \ {value} ELSE @ \cup {value}])
clearFilter(queryKey) == ApplyFilters([ui.filters EXCEPT ![queryKey] = {}])
clearAllFilters == ApplyFilters([k \in FILTERABLE |-> {}])

\* The UI and the server it calls.  A request's slot is released once the
\* UI has read its response.
NextUI ==
    \/ \E v \in ScanInputs : Quiet /\ onChange(v) /\ UNCHANGED hist
    \/ Quiet /\ handleSubmit /\ UNCHANGED hist
    \/ \E s \in Reqs : AddAnswered(s) /\ UNCHANGED hist
    \/ \E s \in Reqs : InitiateAnswered(s) /\ UNCHANGED hist
    \/ Quiet /\ onClose /\ UNCHANGED hist
    \/ Quiet /\ submit /\ UNCHANGED hist
    \/ \E s \in Reqs : onCreated(s) /\ UNCHANGED hist
    \/ \E s \in Reqs : CreatedAddAnswered(s) /\ UNCHANGED hist
    \/ Quiet /\ onCancel /\ UNCHANGED hist
    \/ Quiet /\ onConfirm /\ UNCHANGED hist
    \/ \E s \in Reqs : ConfirmAnswered(s) /\ UNCHANGED hist
    \/ \E k \in FILTERABLE, v \in FilterValues : Quiet /\ toggleFilter(k, v) /\ UNCHANGED hist
    \/ \E k \in FILTERABLE : Quiet /\ clearFilter(k) /\ UNCHANGED hist
    \/ Quiet /\ clearAllFilters /\ UNCHANGED hist
    \/ \E r \in Reqs : ~Awaited(r) /\ Release(r) /\ UNCHANGED <<hist, client>>
    \/ \E r \in Reqs : Begin(r) /\ UNCHANGED <<hist, client>>
    \/ \E r \in Reqs : ItemsInsert(r) /\ UNCHANGED <<hist, client>>
    \/ \E r \in Reqs : ItemsEnsure(r) /\ UNCHANGED <<hist, client>>
    \/ \E r \in Reqs : ItemsCommit(r) /\ UNCHANGED <<hist, client>>
    \/ \E r \in Reqs : AddSelect(r) /\ UNCHANGED <<hist, client>>
    \/ \E r \in Reqs : AddEnsure(r) /\ UNCHANGED <<hist, client>>
    \/ \E r \in Reqs : AddUpdate(r) /\ UNCHANGED <<hist, client>>
    \/ \E r \in Reqs : AddEvent(r) /\ UNCHANGED <<hist, client>>
    \/ \E r \in Reqs : AddCommit(r) /\ UNCHANGED <<hist, client>>
    \/ \E r \in Reqs : InitiateSelect(r) /\ UNCHANGED <<hist, client>>
    \/ \E r \in Reqs : InitiateEnsure(r) /\ UNCHANGED <<hist, client>>
    \/ \E r \in Reqs : InitiateRead(r) /\ UNCHANGED <<hist, client>>
    \/ \E r \in Reqs : InitiateCommit(r) /\ UNCHANGED <<hist, client>>
    \/ \E r \in Reqs : ConfirmSelect(r) /\ UNCHANGED <<hist, client>>
    \/ \E r \in Reqs : ConfirmLock(r) /\ UNCHANGED <<hist, client>>
    \/ \E r \in Reqs : ConfirmUpdate(r) /\ UNCHANGED <<hist, client>>
    \/ \E r \in Reqs : ConfirmEvent(r) /\ UNCHANGED <<hist, client>>
    \/ \E r \in Reqs : ConfirmCommit(r) /\ UNCHANGED <<hist, client>>

\* The page is opened on a store that holds one item.
InitUI == Init /\ items = {"X1"}
SpecUI == InitUI /\ [][NextUI]_vars

\* ------------------------------------------------------------------ the filter menus, event by event

\* The filter events of one session.
MaxToggles == 3

\* The function a filter handler passes to setFilters, with what its closure
\* holds: searchTerm and filters of the render that created the handler.
FilterUpdate(o, k, v) ==
    [op |-> o, key |-> k, value |-> v, term |-> ui.searchTerm, seen |-> ui.filters]

\* Mutant: next is built from the filters of the closure
\* (setFilters({ ...filters, [queryKey]: s })).
Updater_FromClosure(prev, u) ==
    IF u.op = "toggle"
    THEN [u.seen EXCEPT ![u.key] = IF u.value \in @ THEN @ \ {u.value}
                                   ELSE @ \cup {u.value}]
    ELSE IF u.op = "clear" THEN [u.seen EXCEPT ![u.key] = {}]
    ELSE [k \in FILTERABLE |-> {}]

\* prev => next of toggleFilter, of clearFilter and of clearAllFilters.
Updater(prev, u) ==
    IF u.op = "toggle"
    THEN [prev EXCEPT ![u.key] = IF u.value \in @ THEN @ \ {u.value}
                                 ELSE @ \cup {u.value}]
    ELSE IF u.op = "clear" THEN [prev EXCEPT ![u.key] = {}]
    ELSE [k \in FILTERABLE |-> {}]

\* setFilters(fn): React queues the function; the handler returns.
setFilters(u) ==
    /\ ui.mode = "search" /\ Len(ui.updates) < MaxToggles
    /\ ui' = [ui EXCEPT !.updates = Append(@, u)]
    /\ UNCHANGED <<server, reply, await, sent>>

\* React runs the queued functions in order, each on the state the one
\* before it returned (the first, when nothing else is queued, at once);
\* each calls runSearch(searchTerm, next), which sends GET /items/search
\* and returns at its await.
RECURSIVE RunUpdates(_, _, _)
RunUpdates(f, us, reqs) ==
    IF us = <<>> THEN [filters |-> f, sent |-> reqs]
    ELSE LET next == Updater(f, Head(us))
         IN RunUpdates(next, Tail(us),
                       Append(reqs, Request("search", Empty,
                                            makeQueryString(Head(us).term, next))))

\* The next render of App, with the requests of the functions it runs; the
\* k-th request of the session is awaited as slot k.
Render ==
    /\ ui.done < Len(ui.updates)
    /\ LET out == RunUpdates(ui.filters,
                             SubSeq(ui.updates, ui.done + 1, Len(ui.updates)), sent)
       IN /\ ui' = [ui EXCEPT !.filters = out.filters, !.done = Len(ui.updates)]
          /\ sent' = out.sent
          /\ await' = await \cup {[on |-> "search", slot |-> k] :
                                    k \in (Len(sent) + 1)..Len(out.sent)}
    /\ UNCHANGED <<server, reply>>

\* runSearch after its await: the response of the session's k-th request
\* arrives; setResults(data) and setSearchSummary.
SearchAnswered(k) ==
    /\ [on |-> "search", slot |-> k] \in await
    /\ Search(sent[k].query)
    /\ ui' = [ui EXCEPT !.results = reply'.rows,
                        !.searchSummary = <<qRaw(sent[k].query), Len(reply'.rows)>>]
    /\ await' = await \ {[on |-> "search", slot |-> k]}
    /\ UNCHANGED sent

\* Search mode over a catalog of three items, after the search of a term
\* was answered; the filter handlers are called at any time, renders and
\* responses come in between in any order.
FacetCatalog ==
    {RowWith(1, <<"a">>, <<"a">>), RowWith(2, <<"b">>, <<"a">>), RowWith(3, <<"a">>, <<"b">>)}
InitFacets ==
    \E term \in {EmptyText, <<"a">>, <<"b">>} :
        /\ catalog = FacetCatalog
        /\ items = {x.ScannedCode : x \in catalog}
        /\ onhand = [c \in Codes |-> NoRow]
        /\ events = EmptyBag
        /\ rowLock = [c \in Codes |-> NoLock]
        /\ itemLock = [c \in Codes |-> NoLock]
        /\ pc = [r \in Reqs |-> "idle"]
        /\ op = [r \in Reqs |-> "none"]
        /\ code = [r \in Reqs |-> Empty]
        /\ meta = [r \in Reqs |-> NoMeta]
        /\ body = [r \in Reqs |-> NoBody]
        /\ ohRead = [r \in Reqs |-> NoRow]
        /\ wItem = [r \in Reqs |-> FALSE]
        /\ wRow = [r \in Reqs |-> NoItem]
        /\ wOnhand = [r \in Reqs |-> NoWrite]
        /\ wEvents = [r \in Reqs |-> EmptyBag]
        /\ resp = [r \in Reqs |-> NoResponse]
        /\ nAdded = [c \in Codes |-> 0]
        /\ nRemoved = [c \in Codes |-> 0]
        /\ scenario = NoScenario
        /\ reply = Reply("search", makeQueryString(term, NoSession.filters), 200, "none",
                         SearchRows(makeQueryString(term, NoSession.filters)))
        /\ ui = [NoSession EXCEPT !.mode = "search", !.searchTerm = term,
                                  !.results = reply.rows,
                                  !.searchSummary = <<term, Len(reply.rows)>>]
        /\ await = NoAwait
        /\ sent = <<>>
NextFacets ==
    \/ \E k \in FILTERABLE, v \in FilterValues :
          setFilters(FilterUpdate("toggle", k, v)) /\ UNCHANGED hist
    \/ \E k \in FILTERABLE : setFilters(FilterUpdate("clear", k, EmptyText)) /\ UNCHANGED hist
    \/ setFilters(FilterUpdate("clearAll", "", EmptyText)) /\ UNCHANGED hist
    \/ Render /\ UNCHANGED hist
    \/ \E k \in 1..MaxToggles : SearchAnswered(k) /\ UNCHANGED hist
SpecFacets == InitFacets /\ [][NextFacets]_vars

\* The remove flow of one item: the session is in Remove mode with the
\* item's code scanned, the item holds k units after k AddOne calls.  The
\* buttons of the confirmation modal work while a confirm request is in
\* flight (neither is ever disabled); the store and the network can fail.
InitModal ==
    \E k \in 0..MaxBatchQty :
        /\ items = {BatchCode}
        /\ catalog = {StoredRow(BatchCode)}
        /\ onhand = [c \in Codes |-> IF c = BatchCode THEN k ELSE NoRow]
        /\ events = [e \in (IF k = 0 THEN {} ELSE {AddEventRow(BatchCode)}) |-> k]
        /\ rowLock = [c \in Codes |-> NoLock]
        /\ itemLock = [c \in Codes |-> NoLock]
        /\ pc = [r \in Reqs |-> "idle"]
        /\ op = [r \in Reqs |-> "none"]
        /\ code = [r \in Reqs |-> Empty]
        /\ meta = [r \in Reqs |-> NoMeta]
        /\ body = [r \in Reqs |-> NoBody]
        /\ ohRead = [r \in Reqs |-> NoRow]
        /\ wItem = [r \in Reqs |-> FALSE]
        /\ wRow = [r \in Reqs |-> NoItem]
        /\ wOnhand = [r \in Reqs |-> NoWrite]
        /\ wEvents = [r \in Reqs |-> EmptyBag]
        /\ resp = [r \in Reqs |-> NoResponse]
        /\ nAdded = [c \in Codes |-> IF c = BatchCode THEN k ELSE 0]
        /\ nRemoved = [c \in Codes |-> 0]
        /\ scenario = NoScenario
        /\ reply = NoReply
        /\ ui = [NoSession EXCEPT !.mode = "remove", !.toast = "Remove mode enabled.",
                                  !.scanInput = <<BatchCode>>]
        /\ await = NoAwait
        /\ sent = <<>>
NextModal ==
    \/ Quiet /\ onChange(<<BatchCode>>) /\ UNCHANGED hist
    \/ Quiet /\ handleSubmit /\ UNCHANGED hist
    \/ \E s \in Reqs : InitiateAnswered(s) /\ UNCHANGED hist
    \/ \E f \in Forms : setForm(f) /\ UNCHANGED hist
    \/ onCancel /\ UNCHANGED hist
    \/ onConfirm /\ UNCHANGED hist
    \/ \E s \in Reqs : ConfirmAnswered(s) /\ UNCHANGED hist
    \/ \E s \in Reqs : ConfirmFetchFails(s) /\ UNCHANGED hist
    \/ \E r \in Reqs : ~Awaited(r) /\ Release(r) /\ UNCHANGED <<hist, client>>
    \/ \E r \in Reqs : Begin(r) /\ UNCHANGED <<hist, client>>
    \/ \E r \in Reqs : InitiateSelect(r) /\ UNCHANGED <<hist, client>>
    \/ \E r \in Reqs : InitiateEnsure(r) /\ UNCHANGED <<hist, client>>
    \/ \E r \in Reqs : InitiateRead(r) /\ UNCHANGED <<hist, client>>
    \/ \E r \in Reqs : InitiateCommit(r) /\ UNCHANGED <<hist, client>>
    \/ \E r \in Reqs : ConfirmSelect(r) /\ UNCHANGED <<hist, client>>
    \/ \E r \in Reqs : ConfirmLock(r) /\ UNCHANGED <<hist, client>>
    \/ \E r \in Reqs : ConfirmOutOfStock(r) /\ UNCHANGED <<hist, client>>
    \/ \E r \in Reqs : ConfirmUpdate(r) /\ UNCHANGED <<hist, client>>
    \/ \E r \in Reqs : ConfirmEvent(r) /\ UNCHANGED <<hist, client>>
    \/ \E r \in Reqs : ConfirmCommit(r) /\ UNCHANGED <<hist, client>>
    \/ \E r \in Reqs : StatementFails(r) /\ UNCHANGED <<hist, client>>
    \/ \E r \in Reqs : CommitThenFails(r) /\ UNCHANGED <<hist, client>>
    \/ \E r \in Reqs : Catch(r) /\ UNCHANGED <<hist, client>>
    \/ \E r \in Reqs : CatchFails(r) /\ UNCHANGED <<hist, client>>
SpecModal == InitModal /\ [][NextModal]_vars

\* The steps that are bound to happen.  The server runs a handler on from
\* each awaited statement, be it into its catch block; the store executes a
\* statement once no lock holds it up.  A fetch settles: the response
\* arrives, or the browser reports a failure (also when it gives up on a
\* request that is never answered).  The operator's events and the failures
\* of the store are not bound to happen.
ServerStep(r) ==
    \/ Begin(r) \/ InitiateSelect(r) \/ InitiateEnsure(r) \/ InitiateRead(r)
    \/ InitiateCommit(r) \/ ConfirmSelect(r) \/ ConfirmLock(r) \/ ConfirmOutOfStock(r)
    \/ ConfirmUpdate(r) \/ ConfirmEvent(r) \/ ConfirmCommit(r)
    \/ Catch(r) \/ CatchFails(r)
FetchSettles(s) == ConfirmAnswered(s) \/ ConfirmFetchFails(s)
FairModal ==
    /\ SpecModal
    /\ \A r \in Reqs : WF_vars(ServerStep(r) /\ UNCHANGED <<hist, client>>)
    /\ \A s \in Reqs : WF_vars(FetchSettles(s) /\ UNCHANGED hist)

\* ================================================================== claims

Adds(c) == CountEvents(events, c, "add")
Removes(c) == CountEvents(events, c, "remove")
Running(r) == pc[r] \notin {"idle", "done", "sent"}

\* C1: sequentially, after N AddOne calls answered 201 and M ConfirmRemove
\* calls answered REMOVED for an item that started at on-hand 0, its on-hand
\* quantity is N - M and the event log holds exactly N add events and M
\* remove events of the item.
C1_LedgerCountsCalls ==
    \A c \in Codes :
        /\ OnHand(c) = nAdded[c] - nRemoved[c]
        /\ Adds(c) = nAdded[c]
        /\ Removes(c) = nRemoved[c]
C1_Witness ==
    /\ nAdded["X1"] = 2 /\ nRemoved["X1"] = 1
    /\ onhand["X1"] = 1 /\ Adds("X1") = 2 /\ Removes("X1") = 1

\* C2: while a ConfirmRemove runs on an existing item whose on-hand quantity
\* is 0, no step changes an on-hand quantity or the event log, and the
\* request is answered 409 OUT_OF_STOCK with onHand 0.
C2_ConfirmAtZero ==
    [][\A r \in Reqs :
         (op[r] = "confirm" /\ Running(r) /\ code[r] \in items /\ OnHand(code[r]) = 0)
         => /\ \A c \in Codes : OnHand(c)' = OnHand(c)
            /\ events' = events
            /\ pc'[r] = "done" => resp'[r] = Response(409, "OUT_OF_STOCK", 0)]_vars
C2_Witness ==
    \E r \in Reqs :
        /\ pc[r] = "done" /\ op[r] = "confirm"
        /\ resp[r] = Response(409, "OUT_OF_STOCK", 0)
        /\ onhand[code[r]] = 0 /\ nRemoved[code[r]] = 1

\* C3: under every interleaving of the four operations, with storage
\* failures, every on-hand quantity, committed or written by a running
\* transaction, is a natural number.
C3_NonNegative ==
    /\ \A c \in Codes : onhand[c] = NoRow \/ onhand[c] \in Nat
    /\ \A r \in Reqs : wOnhand[r] = NoWrite \/ wOnhand[r] \in Nat
C3_Witness ==
    \E r1, r2 \in Reqs :
        /\ r1 # r2 /\ code[r1] = code[r2]
        /\ op[r1] = "confirm" /\ pc[r1] = "done" /\ resp[r1].body = "REMOVED"
        /\ op[r2] = "confirm" /\ pc[r2] = "oos" /\ ohRead[r2] = 0
        /\ onhand[code[r1]] = 0

\* C4: n concurrent ConfirmRemove requests for an item holding k units, with
\* no adds: once all are answered, exactly min(n, k) are REMOVED and the
\* others OUT_OF_STOCK, the quantity is k - min(n, k), and exactly min(n, k)
\* remove events were appended.
BatchSize == Cardinality({r \in Reqs : op[r] = "confirm"})
BatchAnswered(b) == Cardinality({r \in Reqs : pc[r] = "done" /\ resp[r].body = b})
C4_BatchOfRemovals ==
    (\A r \in Reqs : op[r] = "confirm" => pc[r] = "done")
    => LET k == nAdded[BatchCode]
           m == Min(BatchSize, k)
       IN /\ BatchAnswered("REMOVED") = m
          /\ BatchAnswered("OUT_OF_STOCK") = BatchSize - m
          /\ onhand[BatchCode] = k - m
          /\ Removes(BatchCode) = m
          /\ Adds(BatchCode) = k
C4_Witness ==
    /\ \A r \in Reqs : op[r] = "confirm" => pc[r] = "done"
    /\ BatchSize = 2 /\ nAdded[BatchCode] = 1
    /\ BatchAnswered("REMOVED") = 1 /\ BatchAnswered("OUT_OF_STOCK") = 1

\* C5: in every committed state, with storage failures after any statement,
\* every item's on-hand quantity is its add events minus its remove events.
C5_LedgerMatchesEvents ==
    \A c \in Codes : OnHand(c) = Adds(c) - Removes(c)
C5_Witness ==
    \E r \in Reqs :
        /\ pc[r] = "catch" /\ op[r] = "confirm"
        /\ wOnhand[r] = 0 /\ wEvents[r] = EmptyBag
        /\ onhand[code[r]] = 1 /\ Adds(code[r]) = 2 /\ Removes(code[r]) = 1

\* C6: no step of an InitiateRemove request changes an on-hand quantity or
\* the event log; its only write is a missing OnHandRecord created at 0.
C6_InitiateFrame ==
    [][\A r \in Reqs :
         (op[r] = "initiate" /\ pc[r] # "idle" /\ pc'[r] # pc[r])
         => /\ events' = events
            /\ items' = items
            /\ \A c \in Codes :
                 \/ onhand'[c] = onhand[c]
                 \/ c = code[r] /\ onhand[c] = NoRow /\ onhand'[c] = 0]_vars
C6_Witness ==
    \E r \in Reqs :
        /\ op[r] = "initiate" /\ pc[r] = "done"
        /\ resp[r] = Response(200, "CONFIRM_REQUIRED", 1)
        /\ onhand[code[r]] = 1

\* C7: an answered InitiateRemove on an existing item is CONFIRM_REQUIRED
\* with the current quantity q when q > 0 and REGISTERED_ZERO_STOCK with
\* onHand 0 when q = 0, and nothing else.
C7_InitiateOutcome ==
    \A r \in Reqs :
        (op[r] = "initiate" /\ pc[r] = "done" /\ code[r] \in items)
        => LET q == onhand[code[r]]
           IN \/ q > 0 /\ resp[r] = Response(200, "CONFIRM_REQUIRED", q)
              \/ q = 0 /\ resp[r] = Response(200, "REGISTERED_ZERO_STOCK", 0)
C7_Witness ==
    \E r \in Reqs :
        /\ op[r] = "initiate" /\ pc[r] = "done"
        /\ resp[r] = Response(200, "CONFIRM_REQUIRED", 2)

\* C8 (as claimed): every item an operation has been answered for (200, 201
\* or 409) has an OnHandRecord.
C8_TouchedItemHasRow ==
    \A r \in Reqs :
        (pc[r] = "done" /\ resp[r].http \in {200, 201, 409})
        => onhand[code[r]] # NoRow

\* C9: while AddOne, InitiateRemove or ConfirmRemove runs with a scan code
\* that is not in the catalog, no step changes the committed tables or
\* writes a row, and the request is answered 404 ITEM_NOT_FOUND.
C9_NotFoundNoEffect ==
    [][\A r \in Reqs :
         (op[r] \in {"add", "initiate", "confirm"} /\ Running(r) /\ code[r] \notin items)
         => /\ UNCHANGED db
            /\ wOnhand'[r] = NoWrite /\ wEvents'[r] = EmptyBag /\ ~wItem'[r]
            /\ pc'[r] = "done" => resp'[r] = Response(404, "ITEM_NOT_FOUND", NoRow)]_vars
C9_Witness ==
    \E r \in Reqs :
        /\ pc[r] = "done" /\ op[r] = "add" /\ code[r] \notin items
        /\ resp[r] = Response(404, "ITEM_NOT_FOUND", NoRow)
        /\ \E c \in Codes : nAdded[c] > 0

\* C10: the end-to-end sequence for a scan code not in the catalog: the
\* catalog write answers 201 and leaves on-hand 0 with its ledger row; the
\* following AddOne makes on-hand 1; the following InitiateRemove answers
\* CONFIRM_REQUIRED with onHand 1; the following ConfirmRemove answers
\* REMOVED with onHand 0; and the onHand a ConfirmRemove reports is the
\* stored quantity after the decrement.
AnsweredScenario(r) == pc[r] = "done" /\ code[r] = scenario.code
C10_EndToEnd ==
    /\ scenario.stage = 1 =>
         /\ onhand[scenario.code] = 0
         /\ \A r \in Reqs : AnsweredScenario(r) => resp[r].http = 201
    /\ scenario.stage = 2 =>
         /\ onhand[scenario.code] = 1
         /\ \A r \in Reqs : AnsweredScenario(r) => resp[r].http = 201
    /\ scenario.stage = 3 =>
         /\ onhand[scenario.code] = 1
         /\ \A r \in Reqs :
              AnsweredScenario(r) => resp[r] = Response(200, "CONFIRM_REQUIRED", 1)
    /\ scenario.stage = 4 =>
         /\ onhand[scenario.code] = 0
         /\ \A r \in Reqs :
              AnsweredScenario(r) => resp[r] = Response(200, "REMOVED", 0)
    /\ \A r \in Reqs :
         (pc[r] = "done" /\ resp[r].body = "REMOVED")
         => resp[r].onHand = onhand[code[r]]
C10_Witness ==
    /\ scenario.stage = 4
    /\ \E r \in Reqs :
         AnsweredScenario(r) /\ op[r] = "confirm" /\ resp[r].onHand = 0

\* The committed row of a scan code.
RowOf(cat, c) == CHOOSE x \in cat : x.ScannedCode = c

\* C11 (as claimed): when a catalog write for a scan code that already exists
\* commits, the item's Brand and Model are the incoming values and its
\* inventory date is the incoming one, or the stored one when the request
\* carries none.
C11_UpsertOverwrites ==
    [][\A r \in Reqs :
         (op[r] = "items" /\ pc[r] = "commit" /\ pc'[r] = "done" /\ code[r] \in items)
         => LET old == RowOf(catalog, code[r])
                new == RowOf(catalog', code[r])
            IN /\ new.Brand = body[r].Brand
               /\ new.Model = body[r].Model
               /\ new.InventoryDate = IF body[r].InventoryDate = Null
                                       THEN old.InventoryDate
                                       ELSE body[r].InventoryDate]_vars

\* C12: in every state reached by catalog writes, interleaved in any way, no
\* two items share a scan code, and no step removes an item or changes the
\* identifier or the scan code of one: a write with an existing scan code
\* updates that item in place.
C12_UniqueScanCode ==
    [][/\ \A x, y \in catalog : x.ScannedCode = y.ScannedCode => x = y
       /\ \A x, y \in catalog' : x.ScannedCode = y.ScannedCode => x = y
       /\ \A x \in catalog :
            \E y \in catalog' : y.id = x.id /\ y.ScannedCode = x.ScannedCode]_vars
C12_Witness ==
    \E r1, r2 \in Reqs :
        /\ r1 # r2 /\ code[r1] = code[r2]
        /\ op[r1] = "items" /\ pc[r1] = "done" /\ resp[r1].http = 201
        /\ op[r2] = "items" /\ pc[r2] = "done" /\ resp[r2].http = 201
        /\ body[r1] # body[r2]
        /\ \E x \in catalog : x.ScannedCode = code[r1] /\ x.Model = <<"b">>

\* The scan codes of the rows of a response.
Returned == {reply.rows[i].ScannedCode : i \in DOMAIN reply.rows}
Answered(rt) == reply.route = rt /\ reply.http = 200

\* The values selected for a field of a search request, and the items that
\* satisfy the request: for every field with selected values, the item's
\* value equals one of them whatever the case, and the free text, when
\* there is one, occurs in a text column.
Selected(query, k) == {parseList(query[k])[i] : i \in DOMAIN parseList(query[k])}
Satisfying(query) ==
    {x \in catalog :
        /\ \A k \in {"brand", "model"} :
             Selected(query, k) # {}
             => \E v \in Selected(query, k) : Lower(x[FIELD_MAP[k]]) = Lower(v)
        /\ Trim(query.q) \notin {NullText, EmptyText}
           => \/ x.ScannedCode = Trim(query.q)[1] /\ Len(Trim(query.q)) = 1
              \/ \E col \in TextColumns : ILike(x[col], Trim(query.q))}

C14_UnknownFieldRejected ==
    (reply.route = "search" /\ reply.query.price # NullText)
    => reply.error = "INVALID_FIELD" /\ reply.rows = <<>>

\* C14 (amended): a search request that names a field outside the allow-list
\* is never answered INVALID_FIELD; when answered, it has the rows of the
\* same request without that field.
C14_UnknownFieldIgnored ==
    (reply.route = "search" /\ reply.query.price # NullText)
    => /\ reply.error # "INVALID_FIELD"
       /\ reply.http = 200
          => reply.rows = SearchRows([reply.query EXCEPT !.price = NullText])
C14_Witness ==
    /\ Answered("search") /\ reply.query.price = <<"a">>
    /\ reply.query.brand = <<"a">> /\ reply.query.q = NullText
    /\ reply.query.model = NullText
    /\ Len(reply.rows) = 2 /\ Cardinality(catalog) = 3

\* a comes before b in the order brand, model, scan code, an item without a
\* brand (a model) after all those with one.
C15_KeyInOrder(s, t) == s # NullText /\ (t = NullText \/ TextBefore(s, t))
C15_InOrder(a, b) ==
    \/ C15_KeyInOrder(a.Brand, b.Brand)
    \/ /\ a.Brand = b.Brand
       /\ \/ C15_KeyInOrder(a.Model, b.Model)
          \/ a.Model = b.Model /\ CodeRank[a.ScannedCode] < CodeRank[b.ScannedCode]

\* C15: an answered search with no free text and no filters returns at most
\* 200 items, as many as the catalog has up to 200, in the order brand,
\* model, scan code with nulls last; they are the first of the catalog in
\* that order.
C15_DefaultBrowse ==
    (/\ Answered("search")
     /\ Trim(reply.query.q) \in {NullText, EmptyText}
     /\ \A k \in {"brand", "model"} : Selected(reply.query, k) = {})
    => /\ Len(reply.rows) = Min(Cardinality(catalog), 200)
       /\ Returned \subseteq {x.ScannedCode : x \in catalog}
       /\ \A i \in 1..(Len(reply.rows) - 1) : C15_InOrder(reply.rows[i], reply.rows[i + 1])
       /\ \A x \in catalog :
            (\A i \in DOMAIN reply.rows : reply.rows[i].ScannedCode # x.ScannedCode)
            => C15_InOrder(reply.rows[Len(reply.rows)], x)
C15_Witness ==
    /\ Answered("search")
    /\ reply.query.q = <<" ">> /\ reply.query.brand = NullText
    /\ reply.query.model = NullText
    /\ Cardinality(catalog) = 201 /\ Len(reply.rows) = 200
    /\ reply.rows[100].Brand = <<"B">> /\ reply.rows[101].Brand = NullText

\* C16 (as claimed): DistinctValues with a field name outside the allow-list
\* fails with INVALID_FIELD; with an allow-listed field, when answered, it
\* returns one row for each distinct value of the field whose trimmed text
\* is not empty, with the number of items that hold the value, the values
\* ascending whatever the case.
C16_FieldValues(col) ==
    {x[col] : x \in {y \in catalog : y[col] # NullText /\ Trim(y[col]) # EmptyText}}
C16_DistinctValues ==
    reply.route = "distinct"
    => IF toLowerCase(reply.query) \notin DOMAIN FIELD_MAP
       THEN reply.http = 400 /\ reply.error = "INVALID_FIELD"
       ELSE reply.http = 200
            => LET col == FIELD_MAP[toLowerCase(reply.query)]
                   rows == reply.rows
               IN /\ {rows[i].value : i \in DOMAIN rows} = C16_FieldValues(col)
                  /\ Len(rows) = Cardinality(C16_FieldValues(col))
                  /\ \A i \in DOMAIN rows :
                       rows[i].count =
                         Cardinality({x \in catalog : x[col] = rows[i].value})
                  /\ \A i \in 1..(Len(rows) - 1) :
                       ~TextBefore(Lower(rows[i + 1].value), Lower(rows[i].value))

\* handleSubmit receives the mode code of mode m.
ModeCodes == [add |-> ADD_CODE, remove |-> REMOVE_CODE, search |-> SEARCH_CODE]
ReceivesModeCode(m) == handleSubmit /\ Trim(ui.scanInput) = ModeCodes[m]

\* C17 (as claimed): whenever the session receives a mode code it moves to
\* that mode, and the search term, the selected filters, the pending item and
\* the pending confirmation are cleared; so are the results and the summary
\* (on the search code, up to the browse view that entering Search loads).
C17_ModeCodeClears ==
    [][\A m \in DOMAIN ModeCodes :
          ReceivesModeCode(m)
          => /\ ui'.mode = m
             /\ ui'.searchTerm = EmptyText
             /\ \A k \in FILTERABLE : ui'.filters[k] = {}
             /\ ui'.pendingItem = NoPending /\ ui'.confirmRemove = NoConfirm
             /\ m # "search" => ui'.results = <<>> /\ ui'.searchSummary = <<>>]_vars

\* C18: in Idle, an input that is neither blank nor a mode code is answered
\* with the prompt to select a mode; no request is issued, the server and
\* the session's mode are left as they are.
C18_IdleRejects ==
    [][(/\ handleSubmit
        /\ ui.mode = "idle"
        /\ Trim(ui.scanInput) \notin {EmptyText, ADD_CODE, REMOVE_CODE, SEARCH_CODE})
       => /\ ui'.toast = "No mode selected."
          /\ ui'.mode = "idle"
          /\ sent' = <<>> /\ await' = NoAwait
          /\ UNCHANGED <<server, reply>>]_vars
C18_Witness ==
    /\ ui.mode = "idle" /\ ui.toast = "No mode selected."
    /\ ui.scanInput = EmptyText /\ sent = <<>>

\* C19 (as claimed): whenever the session receives the search code, it
\* issues one search request, without free text and without filters.
C19_SearchCodeBrowses ==
    [][ReceivesModeCode("search")
       => sent' = <<Request("search", Empty, NoQuery)>>]_vars

\* C20 (as claimed): when the create sub-flow succeeds, the session issues
\* the request that scanning the created item's code issues in its mode:
\* POST /inventory/add in Add mode, POST /inventory/remove/initiate in
\* Remove mode.
C20_CreatedIsScanned ==
    [][\A s \in Reqs :
         (onCreated(s) /\ resp[s].http = 201)
         => /\ ui.mode = "add"
               => sent' = Append(sent, Request("add", code[s], NoQuery))
            /\ ui.mode = "remove"
               => sent' = Append(sent, Request("initiate", code[s], NoQuery))]_vars

\* C27: under every interleaving of concurrent AddOne and ConfirmRemove
\* transactions, once no transaction is running, every item's on-hand
\* quantity is its initial quantity (0) plus the AddOne calls answered 201
\* minus the ConfirmRemove calls answered REMOVED, and the event log holds
\* one add event per such AddOne and one remove event per such ConfirmRemove.
C27_NoLostUpdate ==
    (\A r \in Reqs : ~Running(r))
    => \A c \in Codes :
           /\ OnHand(c) = 0 + nAdded[c] - nRemoved[c]
           /\ Adds(c) + Removes(c) = nAdded[c] + nRemoved[c]
           /\ Adds(c) = nAdded[c]
C27_Witness ==
    \E r1, r2 \in Reqs :
        /\ r1 # r2 /\ code[r1] = code[r2]
        /\ pc[r1] = "done" /\ resp[r1].body = "ADDED"
        /\ pc[r2] = "done" /\ resp[r2].body = "REMOVED"
        /\ nAdded[code[r1]] = 2 /\ nRemoved[code[r1]] = 1 /\ onhand[code[r1]] = 1

\* C28: no step of a catalog write (POST /items), under any interleaving and
\* with storage failures, changes the on-hand quantity of an item that has
\* an inventory_onhand row or changes the event log; the "Qty" of the body
\* goes to the items row only.
C28_CatalogWriteFrame ==
    [][\A r \in Reqs :
         (op[r] = "items" /\ pc'[r] # pc[r])
         => /\ events' = events
            /\ \A c \in Codes : onhand[c] # NoRow => onhand'[c] = onhand[c]]_vars
C28_Witness ==
    \E r \in Reqs :
        /\ op[r] = "items" /\ pc[r] = "done" /\ resp[r].http = 201
        /\ body[r].Qty = 2 /\ RowOf(catalog, code[r]).Qty = 2
        /\ onhand[code[r]] = 1 /\ Adds(code[r]) = 1

\* C25 (as claimed): a request whose handler reached its catch block after a
\* storage failure leaves it with the one response 500 SERVER_ERROR and with
\* the committed tables as they were.
C25_FailureAnswered ==
    [][\A r \in Reqs :
         (pc[r] = "catch" /\ pc'[r] # "catch")
         => /\ resp'[r] = Response(500, "SERVER_ERROR", NoRow)
            /\ UNCHANGED db]_vars

\* C21: the step of answering "no" in the confirmation modal closes the
\* modal and nothing else: no request is received by the server, no on-hand
\* quantity and no event changes, and the session is in Remove mode with
\* Submit enabled (no modal open).
C21_NoDiscards ==
    [][onCancel
       => /\ ui'.confirmRemove = NoConfirm /\ ui'.pendingItem = NoPending
          /\ ui'.mode = "remove"
          /\ sent' = <<>>
          /\ UNCHANGED <<server, await>>]_vars
C21_Witness ==
    /\ ui.confirmRemove = NoConfirm /\ ui.toast = "Confirm removal"
    /\ ui.mode = "remove" /\ await = NoAwait /\ AllIdle
    /\ onhand[BatchCode] = 1 /\ Removes(BatchCode) = 0

\* C22 (as claimed): the request that answering "yes" sends carries the
\* Order Id, the source and the date of the modal's form, and the remove
\* event of a confirm request records the values the request carries, with
\* the current time for a missing date.
C22_YesCarriesForm ==
    [][/\ onConfirm
          => \E r \in Reqs :
                 /\ pc[r] = "idle" /\ pc'[r] = "begin" /\ op'[r] = "confirm"
                 /\ meta'[r] = Payload(ui.confirmRemove.form)
       /\ \A r \in Reqs :
             (op[r] = "confirm" /\ pc[r] = "event" /\ pc'[r] = "commit")
             => wEvents'[r] = SetToBag({[item |-> code[r], action |-> "remove", qty |-> 1,
                                         orderId |-> meta[r].orderId,
                                         source |-> meta[r].source,
                                         dateSubtracted |->
                                             IF meta[r].dateSubtracted = Null THEN Now
                                             ELSE meta[r].dateSubtracted]})]_vars

\* C26 (as claimed): while the confirmation modal of one remove attempt is
\* open, at most one confirm request of the session is in flight, and the
\* item holds at most one unit less than when the modal was opened.
C26_OneConfirmPerAttempt ==
    ui.confirmRemove # NoConfirm
    => /\ Cardinality({a \in await : a.on = "confirm"}) <= 1
       /\ onhand[ui.confirmRemove.item] >= ui.confirmRemove.onHand - 1

\* C29: once the operator answered "yes", the handler that "yes" started
\* comes to its end and the modal is closed; the step that ends it, whatever
\* the outcome of the call, closes the modal, empties the scan input and
\* leaves the session in Remove mode with Submit enabled; its notice is
\* 'Already out of stock.' for 409 OUT_OF_STOCK, 'Failed to remove' for any
\* other error response and 'Remove failed' when no response arrives.
C29_Notices(s) ==
    {"Remove failed"}
    \cup {t \in {"Removed 1"} : Responded(s) /\ resp[s].body = "REMOVED"}
    \cup {t \in {"Already out of stock."} : Responded(s) /\ resp[s].body = "OUT_OF_STOCK"}
    \cup {t \in {"Failed to remove"} :
              Responded(s) /\ resp[s].body \in {"ITEM_NOT_FOUND", "SERVER_ERROR"}}
C30_FacetQuery(k, v) ==
    makeQueryString(EmptyText, [f \in FILTERABLE |-> IF f = k THEN {v} ELSE {}])
C30_FacetRoundTrip ==
    (reply.route = "distinct" /\ reply.http = 200)
    => LET k == toLowerCase(reply.query)
       IN \A i \in DOMAIN reply.rows :
            LET v == reply.rows[i].value
                counted == {x \in catalog : x[FIELD_MAP[k]] = v}
                hits == SearchRows(C30_FacetQuery(k, v))
            IN Len(hits) < limit
               => /\ Cardinality(counted) = reply.rows[i].count
                  /\ \A x \in counted :
                        \E j \in DOMAIN hits : hits[j].ScannedCode = x.ScannedCode

\* C23: however the filter events, the renders and the responses
\* interleave, the k-th search request the filter handlers issue carries
\* the search term and the filters that result from the first k filter
\* events, applied in order to the filters the session started with; after
\* a render every filter event has issued its request.
C23_Apply(f, u) ==
    IF u.op = "clearAll" THEN [k \in FILTERABLE |-> {}]
    ELSE [k \in FILTERABLE |->
             IF k # u.key THEN f[k]
             ELSE IF u.op = "clear" THEN {}
             ELSE (f[k] \ {u.value}) \cup ({u.value} \ f[k])]
RECURSIVE C23_After(_)
C23_After(k) ==
    IF k = 0 THEN NoSession.filters ELSE C23_Apply(C23_After(k - 1), ui.updates[k])
C23_EveryToggleSearched ==
    /\ Len(sent) = ui.done
    /\ ui.filters = C23_After(ui.done)
    /\ \A k \in 1..Len(sent) :
          sent[k] = Request("search", Empty,
                            makeQueryString(ui.searchTerm, C23_After(k)))
C23_Witness ==
    /\ Len(ui.updates) = 3 /\ ui.done = 3 /\ Len(sent) = 3
    /\ Cardinality(await) = 3
    /\ ui.updates[1].seen = ui.updates[3].seen
    /\ ui.filters = [k \in FILTERABLE |-> {<<"a">>}]
    /\ sent[2].query.brand # sent[3].query.brand

\* C24 (as claimed): once every search response has arrived, the results
\* shown are those of the request issued last.
C24_LatestShown ==
    (Len(sent) > 0 /\ ui.done = Len(ui.updates) /\ await = NoAwait)
    => ui.results = SearchRows(sent[Len(sent)].query)
====
